---- MODULE Spec2Model ----
(***************************************************************************)
(* Py-Sort: the move / undo engine of src/py_sort.py.                      *)
(*                                                                         *)
(* One directory is organized.  A path is <<folder, name>>: folder is ROOT *)
(* for the directory itself or the name of a category sub-folder; a name   *)
(* is a sequence of one-character strings, so that suffix, stem, lower     *)
(* and the rename pattern language are computed and not assumed.           *)
(*                                                                         *)
(* organize_files (src/py_sort.py:326-496) is modelled statement by        *)
(* statement as it stands in the source: for a real (non dry-run) move it  *)
(* first calls move_file_with_retry inside try/except (lines 414-429) and, *)
(* when that raised nothing, runs the else: clause of the same try (lines  *)
(* 431-465), the while True loop around a second shutil.move followed by   *)
(* log_move.  The statements of lines 393-465 stand directly in the body   *)
(* of the for loop: no try precedes the except of line 466, so that        *)
(* handler guards none of them, unlike the one of                          *)
(* organize_files_with_rename, whose try opens at line 526.                *)
(***************************************************************************)
EXTENDS Integers, Sequences, FiniteSets, TLC

\* ---------------------------------------------------------------- bounds
MaxFiles == 2     \* files the user drops into the directory tree
MaxFail == 1      \* I/O failures the file system injects
MaxPasses == 3    \* invocations of the program
MaxRules == 2     \* categories of a rules table handed to find_target_folder
MaxCalls == 2     \* calls of a function called on its own

\* ------------------------------------------------------- program constants
max_retries == 3
initial_delay == 1

ROOT == "."
OTHER_FOLDER == "Other"

\* ------------------------------------------------------------- characters
LowerChar(c) ==
  CASE c = "A" -> "a"
    [] c = "B" -> "b"
    [] c = "J" -> "j"
    [] c = "P" -> "p"
    [] c = "G" -> "g"
    [] OTHER -> c

\* str.lower()
lower(s) == [i \in 1..Len(s) |-> LowerChar(s[i])]

\* unicodedata.normalize('NFKD', c).encode('ascii', 'ignore'), then
\* re.sub(r'[^\w\s-]', '', ...), .replace(' ', '_'), .lower(), one character
CleanChar(c) ==
  CASE c = "e_acute" -> <<"e">>
    [] c \in {"!", "."} -> <<>>
    [] c = " " -> <<"_">>
    [] OTHER -> <<LowerChar(c)>>

RECURSIVE clean(_)
clean(s) == IF s = <<>> THEN <<>> ELSE CleanChar(Head(s)) \o clean(Tail(s))

SetMax(S) == CHOOSE x \in S : \A y \in S : y <= x
SetMin(S) == CHOOSE x \in S : \A y \in S : x <= y

\* str.rfind('.'), 1-based, 0 when absent
RFindDot(s) ==
  LET I == {i \in 1..Len(s) : s[i] = "."}
  IN IF I = {} THEN 0 ELSE SetMax(I)

\* pathlib PurePath.suffix: the last dot counts unless it is the first or the
\* last character of the name
suffix(s) ==
  LET i == RFindDot(s)
  IN IF i > 1 /\ i < Len(s) THEN SubSeq(s, i, Len(s)) ELSE <<>>

\* pathlib PurePath.stem
stem(s) ==
  LET i == RFindDot(s)
  IN IF i > 1 /\ i < Len(s) THEN SubSeq(s, 1, i - 1) ELSE s

\* fault: the suffix is returned as it is written
get_file_extension_raw(name) == suffix(name)

get_file_extension(name) == lower(suffix(name))

\* ------------------------------------------------------------------ rules
\* sorting_rules as load_sorting_rules returns it: an insertion-ordered
\* mapping category -> list of extensions
sorting_rules ==
  << [folder |-> "Images",    exts |-> {<<".", "j", "p", "g">>}],
     [folder |-> "Documents", exts |-> {<<".", "p", "d", "f">>}] >>

\* fault: only the first category of the table is looked at
find_target_folder_first(file_extension, rules) ==
  IF rules # <<>> /\ file_extension \in rules[1].exts THEN rules[1].folder ELSE OTHER_FOLDER

\* fault: a later category overrides an earlier one
find_target_folder_last(file_extension, rules) ==
  LET I == {i \in 1..Len(rules) : file_extension \in rules[i].exts}
  IN IF I = {} THEN OTHER_FOLDER ELSE rules[SetMax(I)].folder

find_target_folder(file_extension, rules) ==
  LET I == {i \in 1..Len(rules) : file_extension \in rules[i].exts}
  IN IF I = {} THEN OTHER_FOLDER ELSE rules[SetMin(I)].folder

CategoryFolders == {sorting_rules[i].folder : i \in 1..Len(sorting_rules)} \cup {OTHER_FOLDER}

\* the name of a sub-folder as directory.iterdir() yields it
DirEntryName(folder) ==
  CASE folder = "Images" -> <<"I", "m", "a", "g", "e", "s">>
    [] folder = "Documents" -> <<"D", "o", "c", "u", "m", "e", "n", "t", "s">>
    [] OTHER -> <<"O", "t", "h", "e", "r">>

\* ------------------------------------------------------------ rename engine
DigitChars == <<"0", "1", "2", "3", "4", "5", "6", "7", "8", "9">>

\* str(counter), counter < 10
IntStr(k) == <<DigitChars[k + 1]>>

\* datetime.now().strftime("%Y-%m-%d_%H-%M-%S"): one stamp per second
strftime(t) == <<"d">> \o IntStr(t)

\* str.replace(token, repl) on a pattern whose tokens are single elements
RECURSIVE Replace(_, _, _)
Replace(s, token, repl) ==
  IF s = <<>> THEN <<>>
  ELSE (IF Head(s) = token THEN repl ELSE <<Head(s)>>) \o Replace(Tail(s), token, repl)

Substitute(pattern, name, t) ==
  Replace(Replace(Replace(pattern, "{date}", strftime(t)),
                  "{clean}", clean(name)),
          "{lower}", lower(name))

RECURSIVE Probe(_, _, _, _)
Probe(new_name, ext, existing, counter) ==
  LET candidate == new_name \o <<"_">> \o IntStr(counter) \o ext
  IN IF candidate \in existing THEN Probe(new_name, ext, existing, counter + 1)
     ELSE candidate

\* fault: the candidate is returned without looking at existing_names
rename_file_unchecked(file_name, pattern, existing, t) ==
  Substitute(pattern, stem(file_name), t) \o suffix(file_name)

\* fault: the extension is lowered like the stem
rename_file_lower_ext(file_name, pattern, existing, t) ==
  LET new_name == Substitute(pattern, stem(file_name), t)
      ext == lower(suffix(file_name))
      candidate == new_name \o ext
  IN IF candidate \in existing THEN Probe(new_name, ext, existing, 1) ELSE candidate

\* fault: the counter is tried once, without looking at the result
rename_file_once(file_name, pattern, existing, t) ==
  LET new_name == Substitute(pattern, stem(file_name), t)
      ext == suffix(file_name)
      candidate == new_name \o ext
  IN IF candidate \in existing THEN new_name \o <<"_">> \o IntStr(1) \o ext ELSE candidate

\* rename_file: the name it returns; the caller's set gains that name
rename_file(file_name, pattern, existing, t) ==
  LET new_name == Substitute(pattern, stem(file_name), t)
      ext == suffix(file_name)
      candidate == new_name \o ext
  IN IF candidate \in existing THEN Probe(new_name, ext, existing, 1) ELSE candidate

\* ------------------------------------------------------------- file system
LogName ==
  <<"p", "y", "_", "s", "o", "r", "t", "_", "m", "o", "v", "e", "s", ".", "j", "s", "o", "n">>

LogPath == <<ROOT, LogName>>

\* the content of a file: "data" is not JSON, "json" is JSON that is not a
\* list, "log" is a JSON list with its elements
Data(id) == [kind |-> "data", id |-> id, recs |-> <<>>]
JsonDoc == [kind |-> "json", id |-> 0, recs |-> <<>>]
LogDoc(recs) == [kind |-> "log", id |-> 0, recs |-> recs]

\* os.path.getsize
getsize(c) == IF c.kind = "data" THEN 10 * c.id ELSE 1 + Len(c.recs)

Remove(f, p) == [q \in DOMAIN f \ {p} |-> f[q]]
Put(f, p, c) == [q \in DOMAIN f \cup {p} |-> IF q = p THEN c ELSE f[q]]

\* shutil.move(src, dst) when it succeeds: os.rename replaces an existing dst
shutil_move(f, src, dst) == Put(Remove(f, src), dst, f[src])

NameA == <<"a", ".", "j", "p", "g">>
NameB == <<"B", ".", "p", "d", "f">>
UserNames == {NameA, NameB}

PatternLower == <<"{lower}">>
PatternCleanDate == <<"{clean}", "_", "{date}">>
Patterns == {PatternLower, PatternCleanDate}

Perms(S) ==
  {s \in [1..Cardinality(S) -> S] : \A i, j \in 1..Cardinality(S) : i # j => s[i] # s[j]}

VARIABLES
  fs,                 \* path -> content, the regular files of the directory tree
  dirs,               \* the category sub-folders that exist
  failBudget,         \* failures the file system may still inject
  nextId,             \* the number of the next file the user creates
  passes,             \* invocations so far
  hist,               \* how the last two invocations since the last out-of-band change ended
  fs0,                \* the file system when the last organize pass listed the directory
  pc,                 \* position of the running invocation
  directory_path,     \* the directory argument of the last invocation
  mode,               \* "plain": organize_files, "rename": organize_files_with_rename
  dry_run,
  rename_pattern,
  files_to_organize,
  idx,                \* position of the for loop in files_to_organize
  existing_names,
  target_file_path,
  moved_count,
  skipped_count,
  total_size,
  category_stats,
  sorted_categories,  \* the category lines of the statistics, as printed
  attempt,            \* move_file_with_retry: loop variable
  delay,              \* move_file_with_retry: delay of the next sleep
  moves,              \* undo_organization: the loaded log
  upos,               \* undo_organization: position in reversed(moves)
  restored_count,
  u_skipped_count,    \* undo_organization: its skipped_count
  confirm,            \* undo_organization: the answer to "Are you sure"
  outcome,            \* per record of moves: Pending or its terminal outcome
  unit_in,            \* a function called on its own: its arguments
  unit_out,           \* a function called on its own: the values it returned
  editor_config       \* config_editor.menu: its config, the configuration being edited

envVars == <<failBudget, nextId>>
orgVars == <<directory_path, mode, dry_run, rename_pattern, files_to_organize, idx, existing_names,
             target_file_path, moved_count, skipped_count, total_size, category_stats,
             sorted_categories, attempt, delay>>
undoVars == <<moves, upos, restored_count, u_skipped_count, confirm, outcome>>
unitVars == <<unit_in, unit_out, editor_config>>
vars == <<fs, dirs, passes, hist, fs0, pc, envVars, orgVars, undoVars, unitVars>>

\* the exit of an invocation joins the record of the last two
Reported(h, e) == IF Len(h) < 2 THEN Append(h, e) ELSE <<h[2], e>>

EmptyFs == [p \in {} |-> Data(0)]

\* the path of the directory the files are in
RootDir == <<ROOT, <<>>>>
\* category_stats = {}: an insertion-ordered mapping, kept as the sequence of
\* its items
EmptyStats == <<>>

\* no function is called on its own
NoCall == [fn |-> "none"]

\* the locals of an invocation that has not run
OrgFresh ==
  /\ mode' = "plain"
  /\ dry_run' = FALSE
  /\ rename_pattern' = <<>>
  /\ files_to_organize' = <<>>
  /\ idx' = 1
  /\ existing_names' = {}
  /\ target_file_path' = <<ROOT, <<>>>>
  /\ moved_count' = 0
  /\ skipped_count' = 0
  /\ total_size' = 0
  /\ category_stats' = EmptyStats
  /\ sorted_categories' = <<>>
  /\ attempt' = 0
  /\ delay' = initial_delay

UndoFresh ==
  /\ moves' = <<>>
  /\ upos' = 1
  /\ restored_count' = 0
  /\ u_skipped_count' = 0
  /\ confirm' = ""
  /\ outcome' = <<>>

Init ==
  /\ fs = EmptyFs
  /\ dirs = {}
  /\ failBudget = MaxFail
  /\ nextId = 1
  /\ passes = 0
  /\ hist = <<>>
  /\ fs0 = EmptyFs
  /\ pc = "idle"
  /\ directory_path = RootDir
  /\ mode = "plain"
  /\ dry_run = FALSE
  /\ rename_pattern = <<>>
  /\ files_to_organize = <<>>
  /\ idx = 1
  /\ existing_names = {}
  /\ target_file_path = <<ROOT, <<>>>>
  /\ moved_count = 0
  /\ skipped_count = 0
  /\ total_size = 0
  /\ category_stats = EmptyStats
  /\ sorted_categories = <<>>
  /\ attempt = 0
  /\ delay = initial_delay
  /\ moves = <<>>
  /\ upos = 1
  /\ restored_count = 0
  /\ u_skipped_count = 0
  /\ confirm = ""
  /\ outcome = <<>>
  /\ unit_in = NoCall
  /\ unit_out = <<>>
  /\ editor_config = <<>>

\* ------------------------------------------------------------- environment
DirExists(folder) == folder = ROOT \/ folder \in dirs

RootFiles == {p[2] : p \in {q \in DOMAIN fs : q[1] = ROOT}}

\* the content of a file the user creates: every file has content of its own;
\* the first a.jpg has 10 bytes and the first B.pdf 20 (getsize), a further
\* file of a name is larger than every file before it
NewContent(name) ==
  LET first == IF name = NameA THEN 1 ELSE 2
      Same == {p \in DOMAIN fs : fs[p].kind = "data" /\ fs[p].id % 2 = first % 2}
  IN first + 2 * Cardinality(Same)

\* the user puts a file into the directory or into the sub-folder of its
\* category; no invocation is running, the locals of the last one are gone
UserCreatesFile(folder, name) ==
  /\ pc = "idle"
  /\ folder \in {ROOT, find_target_folder(get_file_extension(name), sorting_rules)}
  /\ nextId <= MaxFiles
  /\ <<folder, name>> \notin DOMAIN fs
  /\ fs' = Put(fs, <<folder, name>>, Data(NewContent(name)))
  /\ dirs' = IF folder = ROOT THEN dirs ELSE dirs \cup {folder}
  /\ nextId' = nextId + 1
  /\ hist' = <<>>
  /\ fs0' = EmptyFs
  /\ directory_path' = RootDir
  /\ OrgFresh
  /\ UndoFresh
  /\ UNCHANGED <<failBudget, passes, pc, unitVars>>

\* datetime.now(), in seconds: every invocation runs in a second of its own,
\* and the files of one pass are handled within that second
now == passes

\* what one shutil.move(src, dst) can do now: a missing source or a missing
\* destination folder is FileNotFoundError, an OSError; otherwise the move
\* succeeds unless the file system refuses it
Injectable(src, dst) == src \in DOMAIN fs /\ DirExists(dst[1])

MoveOutcomes(src, dst) ==
  IF ~Injectable(src, dst) THEN {"OSError"}
  ELSE {"ok"} \cup (IF failBudget > 0 THEN {"PermissionError", "OSError"} ELSE {})

Charge(src, dst, out) ==
  IF out # "ok" /\ Injectable(src, dst) THEN failBudget - 1 ELSE failBudget

\* what os.path.getsize / Path.stat can do on a listed file
StatOutcomes == {"ok"} \cup (IF failBudget > 0 THEN {"OSError"} ELSE {})

\* ---------------------------------------------------------------- log_move
\* the element log_move appends: a JSON object with the three keys
MoveRecord(t, original_path, new_path) ==
  [shape |-> "record", timestamp |-> t, original |-> original_path, new |-> new_path]

\* what opening the log for writing can do
WriteOutcomes == {"ok"} \cup (IF failBudget > 0 THEN {"fail"} ELSE {})

\* log_move(directory, original_path, new_path): read the document (absent,
\* not JSON or not a list: start a new log; a list is taken as it is), append
\* one record, rewrite the document; a failed write is reported and swallowed
log_move(f, original_path, new_path, t, written) ==
  LET old == IF LogPath \in DOMAIN f /\ f[LogPath].kind = "log" THEN f[LogPath].recs ELSE <<>>
  IN IF written = "ok"
     THEN Put(f, LogPath, LogDoc(Append(old, MoveRecord(t, original_path, new_path))))
     ELSE f

\* ---------------------------------------------------------------- organize
\* category_stats.setdefault(target_folder, {'count': 0, 'size': 0}) and the
\* two increments; a new key goes to the end of the mapping
AddStat(cs, folder, size) ==
  IF \E i \in 1..Len(cs) : cs[i].category = folder
  THEN [i \in 1..Len(cs) |->
          IF cs[i].category = folder
          THEN [category |-> folder, count |-> cs[i].count + 1, size |-> cs[i].size + size]
          ELSE cs[i]]
  ELSE Append(cs, [category |-> folder, count |-> 1, size |-> size])

CurrentName == files_to_organize[idx]
CurrentSource == <<ROOT, CurrentName>>
\* fault: every file goes to the catch-all folder
CurrentFolderOther == OTHER_FOLDER

CurrentFolder == find_target_folder(get_file_extension(CurrentName), sorting_rules)

\* directory.iterdir() filtered by is_file(); the rename pass leaves the log out
Listing(m) == IF m = "plain" THEN RootFiles ELSE RootFiles \ {LogName}

\* set(f.name for f in directory.iterdir())
ListedNames == RootFiles \cup {DirEntryName(d) : d \in dirs}

\* Path(directory_path).exists(): the directory itself or a regular file in it
PathExists(p) == p = RootDir \/ p \in DOMAIN fs

\* Path(directory_path).is_dir()
IsDir(p) == p = RootDir

\* fault: the directory argument is not looked at
ValidDirectoryAlways(p) == TRUE

\* the check the three entry points start with: the path exists and is a
\* directory
ValidDirectory(p) == PathExists(p) /\ IsDir(p)

\* what the directory argument may name: the directory, a regular file in it
\* or nothing at all
Targets == {RootDir} \cup {<<ROOT, n>> : n \in UserNames}

\* main(): --rename selects organize_files_with_rename, otherwise organize_files;
\* both check the directory argument, load the rules and list the files once
OrganizeStart(m, d, pat, target) ==
  /\ pc = "idle"
  /\ passes < MaxPasses
  /\ passes' = passes + 1
  /\ directory_path' = target
  /\ IF ~ValidDirectory(target)
     THEN /\ hist' = Reported(hist, "organize_nodir")
          /\ OrgFresh
          /\ UNCHANGED <<fs0, pc>>
     ELSE IF Listing(m) = {}
     THEN /\ hist' = Reported(hist, "organize_nofiles")
          /\ OrgFresh
          /\ UNCHANGED <<fs0, pc>>
     ELSE /\ \E order \in Perms(Listing(m)) : files_to_organize' = order
          /\ mode' = m
          /\ dry_run' = d
          /\ rename_pattern' = pat
          /\ existing_names' = IF m = "rename" THEN ListedNames ELSE {}
          /\ idx' = 1
          /\ moved_count' = 0
          /\ skipped_count' = 0
          /\ total_size' = 0
          /\ category_stats' = EmptyStats
          /\ sorted_categories' = <<>>
          /\ fs0' = fs
          /\ pc' = "org_file"
          /\ target_file_path' = <<ROOT, <<>>>>
          /\ attempt' = 0
          /\ delay' = initial_delay
          /\ UNCHANGED hist
  /\ UndoFresh
  /\ UNCHANGED <<fs, dirs, envVars, unitVars>>

\* fault: the folder is created in dry-run mode too
CreatesFolderAlways == TRUE

\* if not dry_run: create_folder_if_not_exists(target_dir)
CreatesFolder == ~dry_run

\* fault: the destination is never found occupied
DestinationOccupiedNever(path) == FALSE

\* target_file_path.exists()
DestinationOccupied(path) == path \in DOMAIN fs

\* the loop body from the computed destination on: the conflict check, the
\* dry-run report, or the start of the real move
Dispatch(d2) ==
  LET new_name == IF mode = "rename"
                  THEN rename_file(CurrentName, rename_pattern, existing_names, now)
                  ELSE CurrentName
      tpath == <<CurrentFolder, new_name>>
      file_size == getsize(fs[CurrentSource])
  IN /\ dirs' = d2
     /\ existing_names' = IF mode = "rename" THEN existing_names \cup {new_name}
                          ELSE existing_names
     /\ target_file_path' = tpath
     /\ IF DestinationOccupied(tpath)
        THEN /\ skipped_count' = skipped_count + 1
             /\ idx' = idx + 1
             /\ pc' = "org_file"
             /\ UNCHANGED <<moved_count, total_size, category_stats, attempt, delay>>
        ELSE IF dry_run
        THEN /\ idx' = idx + 1
             /\ pc' = "org_file"
             /\ moved_count' = IF mode = "rename" THEN moved_count + 1 ELSE moved_count
             /\ total_size' = IF mode = "rename" THEN total_size + file_size ELSE total_size
             /\ category_stats' = IF mode = "rename"
                                  THEN AddStat(category_stats, CurrentFolder, file_size)
                                  ELSE category_stats
             /\ UNCHANGED <<skipped_count, attempt, delay>>
        ELSE /\ pc' = IF mode = "plain" THEN "mfwr" ELSE "org_move"
             /\ attempt' = 0
             /\ delay' = initial_delay
             /\ UNCHANGED <<idx, moved_count, skipped_count, total_size, category_stats>>
     /\ UNCHANGED <<fs, passes, hist, fs0, nextId, directory_path, mode, dry_run, rename_pattern,
                    files_to_organize, sorted_categories, undoVars, unitVars>>

\* one iteration of the for loop up to the move: extension, category, size,
\* create_folder_if_not_exists, destination
\* is the statement that reads the size inside a try of the loop body:
\* organize_files_with_rename opens one at line 526; in organize_files the
\* statements of lines 393-465 stand directly in the for body, and the handler
\* of line 466 has no try before it
StatErrorCaught(m) == m = "rename"

\* the size cannot be read: the handler of lines 582-585 counts the file as
\* skipped and the loop goes on, or the error leaves organize_files
StatFailed ==
  /\ failBudget' = failBudget - 1
  /\ IF StatErrorCaught(mode)
     THEN /\ skipped_count' = skipped_count + 1
          /\ idx' = idx + 1
          /\ UNCHANGED <<pc, hist, existing_names, target_file_path, attempt, delay>>
     ELSE /\ pc' = "idle"
          /\ hist' = Reported(hist, "organize_error")
          /\ idx' = 1
          /\ existing_names' = {}
          /\ target_file_path' = <<ROOT, <<>>>>
          /\ attempt' = 0
          /\ delay' = initial_delay
          /\ UNCHANGED skipped_count
  /\ UNCHANGED <<fs, dirs, nextId, passes, fs0, directory_path, mode, dry_run, rename_pattern,
                 files_to_organize, moved_count, total_size, category_stats,
                 sorted_categories, undoVars, unitVars>>

OrganizeFile ==
  /\ pc = "org_file"
  /\ idx <= Len(files_to_organize)
  /\ \E st \in StatOutcomes :
       IF st # "ok"
       THEN StatFailed
       ELSE IF CreatesFolder /\ CurrentFolder \notin dirs
       THEN \E out \in {"ok"} \cup (IF failBudget > 0 THEN {"fail"} ELSE {}) :
              IF out = "ok"
              THEN Dispatch(dirs \cup {CurrentFolder}) /\ UNCHANGED failBudget
              ELSE /\ pc' = "mkdir_prompt"
                   /\ failBudget' = failBudget - 1
                   /\ UNCHANGED <<fs, dirs, nextId, passes, hist, fs0, orgVars, undoVars,
                                  unitVars>>
       ELSE Dispatch(dirs) /\ UNCHANGED failBudget

\* create_folder_if_not_exists: prompt_retry after a failed mkdir; yes tries
\* mkdir again, no returns without the folder
CreateFolderPrompt(response) ==
  /\ pc = "mkdir_prompt"
  /\ IF response = "y"
     THEN /\ pc' = "org_file"
          /\ UNCHANGED <<fs, dirs, passes, hist, fs0, envVars, orgVars, undoVars, unitVars>>
     ELSE Dispatch(dirs) /\ UNCHANGED failBudget

\* move_file_with_retry(src, dst): one pass of its for loop, and what
\* organize_files does with its result (lines 414-429)
MoveFileWithRetry ==
  /\ pc = "mfwr"
  /\ \E out \in MoveOutcomes(CurrentSource, target_file_path) :
       /\ failBudget' = Charge(CurrentSource, target_file_path, out)
       /\ IF out = "ok"
          THEN /\ fs' = shutil_move(fs, CurrentSource, target_file_path)
               /\ moved_count' = moved_count + 1
               /\ total_size' = total_size + getsize(fs[CurrentSource])
               /\ category_stats' = AddStat(category_stats, CurrentFolder, getsize(fs[CurrentSource]))
               /\ pc' = "org_move"
               /\ UNCHANGED <<idx, skipped_count, attempt, delay>>
          ELSE IF out = "PermissionError" /\ attempt < max_retries - 1
          THEN /\ attempt' = attempt + 1
               /\ delay' = delay * 2
               /\ UNCHANGED <<fs, pc, idx, moved_count, skipped_count, total_size, category_stats>>
          ELSE /\ skipped_count' = skipped_count + 1
               /\ idx' = idx + 1
               /\ pc' = "org_file"
               /\ UNCHANGED <<fs, moved_count, total_size, category_stats, attempt, delay>>
  /\ UNCHANGED <<dirs, nextId, passes, hist, fs0, directory_path, mode, dry_run, rename_pattern,
                 files_to_organize, existing_names, target_file_path, sorted_categories,
                 undoVars, unitVars>>

\* the while True loop: shutil.move, and on success the bookkeeping up to break
OrganizeMove ==
  /\ pc = "org_move"
  /\ \E out \in MoveOutcomes(CurrentSource, target_file_path) :
       /\ IF out = "ok"
          THEN /\ \E written \in WriteOutcomes :
                    /\ fs' = log_move(shutil_move(fs, CurrentSource, target_file_path),
                                      CurrentSource, target_file_path, now, written)
                    /\ failBudget' = IF written = "ok" THEN failBudget ELSE failBudget - 1
               /\ moved_count' = moved_count + 1
               /\ total_size' = total_size + getsize(fs[CurrentSource])
               /\ category_stats' = AddStat(category_stats, CurrentFolder, getsize(fs[CurrentSource]))
               /\ idx' = idx + 1
               /\ pc' = "org_file"
          ELSE /\ pc' = "org_prompt"
               /\ failBudget' = Charge(CurrentSource, target_file_path, out)
               /\ UNCHANGED <<fs, idx, moved_count, total_size, category_stats>>
  /\ UNCHANGED <<dirs, nextId, passes, hist, fs0, directory_path, mode, dry_run, rename_pattern,
                 files_to_organize, existing_names, target_file_path, skipped_count,
                 sorted_categories, attempt, delay, undoVars, unitVars>>

\* prompt_retry after a failed move: yes loops, no counts the file skipped and
\* breaks; organize_files_with_rename then runs lines 576-580
OrganizePrompt(response) ==
  /\ pc = "org_prompt"
  /\ IF response = "y"
     THEN /\ pc' = "org_move"
          /\ UNCHANGED <<idx, moved_count, skipped_count, total_size, category_stats>>
     ELSE /\ skipped_count' = skipped_count + 1
          /\ idx' = idx + 1
          /\ pc' = "org_file"
          /\ IF mode = "rename"
             THEN /\ moved_count' = moved_count + 1
                  /\ total_size' = total_size + getsize(fs[CurrentSource])
                  /\ category_stats' = AddStat(category_stats, CurrentFolder,
                                               getsize(fs[CurrentSource]))
             ELSE UNCHANGED <<moved_count, total_size, category_stats>>
  /\ UNCHANGED <<fs, dirs, passes, hist, fs0, envVars, directory_path, mode, dry_run, rename_pattern,
                 files_to_organize, existing_names, target_file_path, sorted_categories,
                 attempt, delay, undoVars, unitVars>>

\* sorted(category_stats.items(), key=lambda x: x[1]['count'], reverse=True):
\* a stable sort, items of equal count keep the order of the mapping
SortedByCount(items) ==
  LET Before(j, i) == \/ items[j].count > items[i].count
                      \/ (items[j].count = items[i].count /\ j < i)
      Place(i) == 1 + Cardinality({j \in 1..Len(items) : Before(j, i)})
  IN [k \in 1..Len(items) |-> items[CHOOSE i \in 1..Len(items) : Place(i) = k]]

\* if show_stats and moved_count > 0 (organize_files: only when not dry_run)
StatsPrinted == moved_count > 0 /\ (mode = "rename" \/ ~dry_run)

\* the summary after the for loop
OrganizeSummary ==
  /\ pc = "org_file"
  /\ idx > Len(files_to_organize)
  /\ pc' = "idle"
  /\ hist' = Reported(hist, IF dry_run THEN "organize_dry" ELSE "organize")
  /\ idx' = 1
  /\ existing_names' = {}
  /\ target_file_path' = <<ROOT, <<>>>>
  /\ attempt' = 0
  /\ delay' = initial_delay
  /\ sorted_categories' = IF StatsPrinted THEN SortedByCount(category_stats) ELSE <<>>
  /\ UNCHANGED <<fs, dirs, passes, fs0, envVars, directory_path, mode, dry_run, rename_pattern,
                 files_to_organize, moved_count, skipped_count, total_size,
                 category_stats, undoVars, unitVars>>

\* -------------------------------------------------------------------- undo
\* fault: whatever the log document holds is taken for a list of records
MalformedNever(doc) == FALSE

\* the loaded document is rejected: json.load fails, or the value is not a
\* list, or an element of the list is not a JSON object
Malformed(doc) ==
  \/ doc.kind # "log"
  \/ \E i \in 1..Len(doc.recs) : doc.recs[i].shape # "record"

\* undo_organization up to the confirmation prompt
UndoStart(target) ==
  /\ pc = "idle"
  /\ passes < MaxPasses
  /\ passes' = passes + 1
  /\ directory_path' = target
  /\ IF ~ValidDirectory(target)
     THEN /\ hist' = Reported(hist, "undo_nodir")
          /\ moves' = <<>>
          /\ UNCHANGED pc
     ELSE IF LogPath \notin DOMAIN fs
     THEN /\ hist' = Reported(hist, "undo_nolog")
          /\ moves' = <<>>
          /\ UNCHANGED pc
     ELSE IF Malformed(fs[LogPath])
     THEN /\ hist' = Reported(hist, "undo_malformed")
          /\ moves' = <<>>
          /\ UNCHANGED pc
     ELSE IF fs[LogPath].recs = <<>>
     THEN /\ hist' = Reported(hist, "undo_empty")
          /\ moves' = <<>>
          /\ UNCHANGED pc
     ELSE /\ moves' = fs[LogPath].recs
          /\ pc' = "undo_confirm"
          /\ UNCHANGED hist
  /\ upos' = 1
  /\ restored_count' = 0
  /\ u_skipped_count' = 0
  /\ confirm' = ""
  /\ outcome' = <<>>
  /\ OrgFresh
  /\ UNCHANGED <<fs, dirs, fs0, envVars, unitVars>>

\* fault: the answer is not looked at
ConfirmedAlways(answer) == TRUE

\* if confirm != 'y': cancelled
Confirmed(answer) == answer = "y"

UndoConfirm(answer) ==
  /\ pc = "undo_confirm"
  /\ confirm' = answer
  /\ IF Confirmed(answer)
     THEN /\ restored_count' = 0
          /\ u_skipped_count' = 0
          /\ upos' = 1
          /\ outcome' = [i \in 1..Len(moves) |-> "Pending"]
          /\ pc' = "undo_record"
          /\ UNCHANGED hist
     ELSE /\ pc' = "idle"
          /\ hist' = Reported(hist, "undo_cancelled")
          /\ UNCHANGED <<restored_count, u_skipped_count, upos, outcome>>
  /\ UNCHANGED <<fs, dirs, passes, fs0, envVars, orgVars, moves, unitVars>>

\* fault: the log is replayed front to back
UndoOrderForward(n, k) == k

\* reversed(moves): the index of the record handled at position k of n
UndoOrder(n, k) == n + 1 - k

CurrentRecord == UndoOrder(Len(moves), upos)

\* fault: the original location is never found occupied
OriginalOccupiedNever(path) == FALSE

\* original_path.exists()
OriginalOccupied(path) == path \in DOMAIN fs

\* fault: a missing file ends the loop
AfterMissingBreak(k) == Len(moves) + 1

\* continue: a missing file sends the loop to the next record
AfterMissing(k) == k + 1

\* one record up to the move: the two existence checks (the parent of an
\* original path is the organized directory itself, which exists, so the mkdir
\* of lines 675-682 has nothing to do)
UndoRecord ==
  /\ pc = "undo_record"
  /\ upos <= Len(moves)
  /\ LET original_path == moves[CurrentRecord].original
         new_path == moves[CurrentRecord].new
     IN IF new_path \notin DOMAIN fs
        THEN /\ u_skipped_count' = u_skipped_count + 1
             /\ outcome' = [outcome EXCEPT ![CurrentRecord] = "SkippedMissing"]
             /\ upos' = AfterMissing(upos)
             /\ UNCHANGED pc
        ELSE IF OriginalOccupied(original_path)
        THEN /\ u_skipped_count' = u_skipped_count + 1
             /\ outcome' = [outcome EXCEPT ![CurrentRecord] = "SkippedConflict"]
             /\ upos' = upos + 1
             /\ UNCHANGED pc
        ELSE /\ pc' = "undo_move"
             /\ UNCHANGED <<u_skipped_count, outcome, upos>>
  /\ UNCHANGED <<fs, dirs, passes, hist, fs0, envVars, orgVars, moves, restored_count, confirm,
                 unitVars>>

\* the while True loop of undo: shutil.move(new_path, original_path)
UndoMove ==
  /\ pc = "undo_move"
  /\ LET original_path == moves[CurrentRecord].original
         new_path == moves[CurrentRecord].new
     IN \E out \in MoveOutcomes(new_path, original_path) :
          /\ failBudget' = Charge(new_path, original_path, out)
          /\ IF out = "ok"
             THEN /\ fs' = shutil_move(fs, new_path, original_path)
                  /\ restored_count' = restored_count + 1
                  /\ outcome' = [outcome EXCEPT ![CurrentRecord] = "Restored"]
                  /\ upos' = upos + 1
                  /\ pc' = "undo_record"
             ELSE /\ pc' = "undo_prompt"
                  /\ UNCHANGED <<fs, restored_count, outcome, upos>>
  /\ UNCHANGED <<dirs, nextId, passes, hist, fs0, orgVars, moves, u_skipped_count, confirm,
                 unitVars>>

UndoPrompt(response) ==
  /\ pc = "undo_prompt"
  /\ IF response = "y"
     THEN /\ pc' = "undo_move"
          /\ UNCHANGED <<u_skipped_count, outcome, upos>>
     ELSE /\ u_skipped_count' = u_skipped_count + 1
          /\ outcome' = [outcome EXCEPT ![CurrentRecord] = "SkippedAfterRetryDecline"]
          /\ upos' = upos + 1
          /\ pc' = "undo_record"
  /\ UNCHANGED <<fs, dirs, passes, hist, fs0, envVars, orgVars, moves, restored_count, confirm,
                 unitVars>>

\* after the for loop: the two report lines; the log document is not touched
UndoFinish ==
  /\ pc = "undo_record"
  /\ upos > Len(moves)
  /\ pc' = "idle"
  /\ hist' = Reported(hist, "undo")
  /\ upos' = 1
  /\ UNCHANGED <<fs, dirs, passes, fs0, envVars, orgVars, moves, restored_count,
                 u_skipped_count, confirm, outcome, unitVars>>

\* ------------------------------------------------------------ specification
\* the invocations of this specification name the directory the files are in
\* (the argument defaults to "."); the entry points are called on other
\* arguments further down
Answers == {"y", "n"}
ConfirmAnswers == {"y", "yes", "n", ""}

Next ==
  \/ \E folder \in {ROOT} \cup CategoryFolders, name \in UserNames : UserCreatesFile(folder, name)
  \/ \E d \in BOOLEAN : OrganizeStart("plain", d, <<>>, RootDir)
  \/ \E d \in BOOLEAN, pat \in Patterns : OrganizeStart("rename", d, pat, RootDir)
  \/ OrganizeFile
  \/ \E r \in Answers : CreateFolderPrompt(r)
  \/ MoveFileWithRetry
  \/ OrganizeMove
  \/ \E r \in Answers : OrganizePrompt(r)
  \/ OrganizeSummary
  \/ UndoStart(RootDir)
  \/ \E a \in ConfirmAnswers : UndoConfirm(a)
  \/ UndoRecord
  \/ UndoMove
  \/ \E r \in Answers : UndoPrompt(r)
  \/ UndoFinish

Spec == Init /\ [][Next]_vars

\* the scheduling of a pass: the program takes its next step, the operator
\* answers every prompt, and an operation that keeps failing has its retry
\* declined at some point
Fairness ==
  /\ WF_vars(OrganizeFile)
  /\ WF_vars(MoveFileWithRetry)
  /\ WF_vars(OrganizeMove)
  /\ WF_vars(OrganizeSummary)
  /\ WF_vars(UndoRecord)
  /\ WF_vars(UndoMove)
  /\ WF_vars(UndoFinish)
  /\ WF_vars(\E a \in ConfirmAnswers : UndoConfirm(a))
  /\ WF_vars(\E r \in Answers : CreateFolderPrompt(r))
  /\ WF_vars(\E r \in Answers : OrganizePrompt(r))
  /\ WF_vars(\E r \in Answers : UndoPrompt(r))
  /\ SF_vars(CreateFolderPrompt("n"))
  /\ SF_vars(OrganizePrompt("n"))
  /\ SF_vars(UndoPrompt("n"))

LiveSpec == Init /\ [][Next]_vars /\ Fairness

\* ------------------------------------------------- functions on their own
\* find_target_folder, rename_file and log_move called directly, as the unit
\* tests call them, on arguments drawn from small sets; and the entry points
\* called on a directory argument that may name a regular file or nothing, and
\* on a directory whose log document is arbitrary

ExtJpg == <<".", "j", "p", "g">>
ExtPdf == <<".", "p", "d", "f">>
ExtXyz == <<".", "x", "y", "z">>
UnitExtensions == {ExtJpg, ExtPdf, ExtXyz}

\* a rules table: categories with distinct names, each with a list of extensions
RulesTables ==
  {r \in UNION {[1..n -> [folder : {"Images", "Documents", OTHER_FOLDER},
                          exts : SUBSET {ExtJpg, ExtPdf}]] : n \in 0..MaxRules} :
     \A i, j \in 1..Len(r) : i # j => r[i].folder # r[j].folder}

NamePhotoUpper == <<"P", "h", "o", "t", "o", ".", "J", "P", "G">>
NamePhotoLower == <<"p", "h", "o", "t", "o", ".", "j", "p", "g">>
UnitNames == {NamePhotoUpper, NamePhotoLower, NameA}

\* names without a suffix: a dot-file and a bare name
NameHidden == <<".", "h", "i", "d", "d", "e", "n">>
NameNoExtension == <<"n", "o", "e", "x", "t", "e", "n", "s", "i", "o", "n">>
ClassifiedNames == UnitNames \cup {NameB, NameHidden, NameNoExtension}

PatternLowerDate == <<"{lower}", "_", "{date}">>
PatternLiteral == <<"x">>
UnitPatterns == {PatternLowerDate, PatternLower, PatternLiteral}

CallSequences == UNION {[1..n -> UnitNames] : n \in 1..MaxCalls}

Range(q) == {q[i] : i \in 1..Len(q)}

\* a stored element that is not a JSON object
Junk == [shape |-> "other", timestamp |-> 0, original |-> <<ROOT, <<>>>>, new |-> <<ROOT, <<>>>>]

OldRecord == MoveRecord(0, <<ROOT, NameB>>, <<"Documents", NameB>>)

\* log_file.exists() is false
Absent == [kind |-> "absent", id |-> 0, recs |-> <<>>]

\* what py_sort_moves.json may hold before log_move is called
StoredDocuments ==
  {Absent, Data(1), JsonDoc, LogDoc(<<>>), LogDoc(<<OldRecord>>), LogDoc(<<Junk>>),
   LogDoc(<<OldRecord, Junk>>)}

\* get_default_sorting_rules(): the hardcoded table, categories in the order
\* of the dict literal
get_default_sorting_rules ==
  <<
    [folder |-> "Images", exts |-> {
      <<".", "j", "p", "g">>, <<".", "j", "p", "e", "g">>, <<".", "p", "n", "g">>,
      <<".", "g", "i", "f">>, <<".", "b", "m", "p">>, <<".", "s", "v", "g">>,
      <<".", "w", "e", "b", "p">>, <<".", "t", "i", "f", "f">>, <<".", "i", "c", "o">>,
      <<".", "r", "a", "w">>, <<".", "h", "e", "i", "c">>, <<".", "h", "e", "i", "f">>,
      <<".", "c", "r", "2">>, <<".", "n", "e", "f">>, <<".", "a", "r", "w">>,
      <<".", "d", "n", "g">>, <<".", "p", "s", "d">>}],
    [folder |-> "Documents", exts |-> {
      <<".", "p", "d", "f">>, <<".", "d", "o", "c">>, <<".", "d", "o", "c", "x">>,
      <<".", "t", "x", "t">>, <<".", "r", "t", "f">>, <<".", "o", "d", "t">>,
      <<".", "p", "a", "g", "e", "s">>, <<".", "m", "d">>, <<".", "t", "e", "x">>,
      <<".", "e", "p", "u", "b">>, <<".", "m", "o", "b", "i">>, <<".", "a", "z", "w">>,
      <<".", "a", "z", "w", "3">>, <<".", "l", "o", "g">>}],
    [folder |-> "Videos", exts |-> {
      <<".", "m", "p", "4">>, <<".", "a", "v", "i">>, <<".", "m", "o", "v">>,
      <<".", "w", "m", "v">>, <<".", "f", "l", "v">>, <<".", "w", "e", "b", "m">>,
      <<".", "m", "k", "v">>, <<".", "m", "4", "v">>, <<".", "3", "g", "p">>,
      <<".", "m", "p", "g">>, <<".", "m", "p", "e", "g">>, <<".", "v", "o", "b">>,
      <<".", "o", "g", "v">>}],
    [folder |-> "Audio", exts |-> {
      <<".", "m", "p", "3">>, <<".", "w", "a", "v">>, <<".", "f", "l", "a", "c">>,
      <<".", "a", "a", "c">>, <<".", "o", "g", "g">>, <<".", "m", "4", "a">>,
      <<".", "w", "m", "a">>, <<".", "o", "p", "u", "s">>, <<".", "a", "i", "f", "f">>,
      <<".", "a", "u">>, <<".", "m", "i", "d">>, <<".", "m", "i", "d", "i">>}],
    [folder |-> "Archives", exts |-> {
      <<".", "z", "i", "p">>, <<".", "r", "a", "r">>, <<".", "7", "z">>,
      <<".", "t", "a", "r">>, <<".", "g", "z">>, <<".", "b", "z", "2">>,
      <<".", "x", "z">>, <<".", "t", "a", "r", ".", "g", "z">>,
      <<".", "t", "a", "r", ".", "b", "z", "2">>, <<".", "c", "a", "b">>,
      <<".", "i", "s", "o">>, <<".", "i", "m", "g">>}],
    [folder |-> "Code", exts |-> {
      <<".", "p", "y">>, <<".", "j", "s">>, <<".", "h", "t", "m", "l">>,
      <<".", "c", "s", "s">>, <<".", "j", "a", "v", "a">>, <<".", "c", "p", "p">>,
      <<".", "c">>, <<".", "p", "h", "p">>, <<".", "r", "b">>, <<".", "g", "o">>,
      <<".", "r", "s">>, <<".", "t", "s">>, <<".", "j", "s", "x">>,
      <<".", "t", "s", "x">>, <<".", "s", "w", "i", "f", "t">>, <<".", "k", "t">>,
      <<".", "s", "c", "a", "l", "a">>, <<".", "s", "h">>, <<".", "b", "a", "s", "h">>,
      <<".", "j", "s", "o", "n">>, <<".", "x", "m", "l">>, <<".", "y", "a", "m", "l">>,
      <<".", "y", "m", "l">>, <<".", "s", "q", "l">>}],
    [folder |-> "Spreadsheets", exts |-> {
      <<".", "x", "l", "s">>, <<".", "x", "l", "s", "x">>, <<".", "c", "s", "v">>,
      <<".", "o", "d", "s">>, <<".", "n", "u", "m", "b", "e", "r", "s">>,
      <<".", "t", "s", "v">>, <<".", "x", "l", "s", "m">>}],
    [folder |-> "Presentations", exts |-> {
      <<".", "p", "p", "t">>, <<".", "p", "p", "t", "x">>, <<".", "o", "d", "p">>,
      <<".", "k", "e", "y">>, <<".", "p", "p", "s">>, <<".", "p", "p", "s", "x">>}],
    [folder |-> "Executables", exts |-> {
      <<".", "e", "x", "e">>, <<".", "m", "s", "i">>, <<".", "d", "e", "b">>,
      <<".", "r", "p", "m">>, <<".", "d", "m", "g">>, <<".", "a", "p", "p">>,
      <<".", "a", "p", "k">>, <<".", "j", "a", "r">>}]
  >>

\* the configuration file as open() and json.load() find it: no such file, a
\* file that cannot be read, text that is not JSON, or the JSON text of a value
ConfigMissing == [kind |-> "missing", value |-> <<>>]
ConfigUnreadable == [kind |-> "unreadable", value |-> <<>>]
ConfigText == [kind |-> "text", value |-> <<>>]
ConfigJson(r) == [kind |-> "json", value |-> r]
ConfigDocuments ==
  {ConfigMissing, ConfigUnreadable, ConfigText} \cup {ConfigJson(r) : r \in RulesTables}

\* what open(config_path, 'r') and json.load(f) raise on the document
LoadError(config) ==
  CASE config.kind = "missing" -> "FileNotFoundError"
    [] config.kind = "unreadable" -> "PermissionError"
    [] config.kind = "text" -> "JSONDecodeError"
    [] OTHER -> "none"

\* isinstance(exc, class) for the except clauses; the three errors are
\* subclasses of Exception
IsInstance(exc, class) == class = exc \/ class = "Exception"

\* fault: the last except clause is missing
load_sorting_rules_specific(config) ==
  LET exc == LoadError(config)
  IN IF exc = "none" THEN [raised |-> "none", rules |-> config.value]
     ELSE IF \E class \in {"FileNotFoundError", "JSONDecodeError"} : IsInstance(exc, class)
     THEN [raised |-> "none", rules |-> get_default_sorting_rules]
     ELSE [raised |-> exc, rules |-> <<>>]

\* load_sorting_rules(config_path): the value json.load returns, or the default
\* table from each of the three except clauses
load_sorting_rules(config) ==
  LET exc == LoadError(config)
  IN IF exc = "none" THEN [raised |-> "none", rules |-> config.value]
     ELSE IF \E class \in {"FileNotFoundError", "JSONDecodeError", "Exception"} :
               IsInstance(exc, class)
     THEN [raised |-> "none", rules |-> get_default_sorting_rules]
     ELSE [raised |-> exc, rules |-> <<>>]

\* every variable of an invocation at rest
AtRest ==
  /\ failBudget = MaxFail
  /\ nextId = 1
  /\ hist = <<>>
  /\ fs0 = EmptyFs
  /\ directory_path = RootDir
  /\ mode = "plain"
  /\ dry_run = FALSE
  /\ rename_pattern = <<>>
  /\ files_to_organize = <<>>
  /\ idx = 1
  /\ target_file_path = <<ROOT, <<>>>>
  /\ moved_count = 0
  /\ skipped_count = 0
  /\ total_size = 0
  /\ category_stats = EmptyStats
  /\ sorted_categories = <<>>
  /\ attempt = 0
  /\ moves = <<>>
  /\ upos = 1
  /\ restored_count = 0
  /\ u_skipped_count = 0
  /\ confirm = ""
  /\ outcome = <<>>

\* what shutil.move does at each attempt of one call, as a test patches it
MoveFaults(n) == [1..n -> {"ok", "PermissionError", "OSError"}]

\* the largest max_retries a call is given
MaxRetriesArg == 4

\* str.strip() for the blank
RECURSIVE lstrip(_)
lstrip(s) == IF s # <<>> /\ Head(s) = " " THEN lstrip(Tail(s)) ELSE s
RECURSIVE rstrip(_)
rstrip(s) == IF s # <<>> /\ s[Len(s)] = " " THEN rstrip(SubSeq(s, 1, Len(s) - 1)) ELSE s
strip(s) == rstrip(lstrip(s))

\* what the operator types at the prompts of the config editor
CategoryInputs == {<<>>, <<" ">>, <<"A">>, <<" ", "A", " ">>, <<"b">>}
ExtInputs == {<<>>, <<"p">>, <<".", "p">>, <<".", "P">>, <<" ", ".", "p", " ">>, <<".", "j">>}

\* what load_config() may return at the start of menu(): no category, or
\* one with an extension
StoredConfigs == {<<>>, <<[category |-> <<"A">>, extensions |-> <<<<".", "p">>>>]>>}

\* name in config / category in config
InConfig(cfg, name) == \E i \in 1..Len(cfg) : cfg[i].category = name

\* config[category]
ExtensionsOf(cfg, name) ==
  LET i == CHOOSE i \in 1..Len(cfg) : cfg[i].category = name IN cfg[i].extensions

\* config[category] = extensions, the key keeps its place
WithExtensions(cfg, name, exts) ==
  [i \in 1..Len(cfg) |-> IF cfg[i].category = name
                         THEN [category |-> name, extensions |-> exts] ELSE cfg[i]]

\* del config[name]
DelCategory(cfg, name) == LET keep(e) == e.category # name IN SelectSeq(cfg, keep)

\* list.remove(x): the first occurrence goes
ListRemove(q, x) ==
  LET i == CHOOSE i \in 1..Len(q) : q[i] = x /\ \A j \in 1..(i - 1) : q[j] # x
  IN SubSeq(q, 1, i - 1) \o SubSeq(q, i + 1, Len(q))

\* fault: the extension is taken as typed, without .lower()
ExtensionTypedRaw(raw) == strip(raw)

\* input(...).strip().lower() of add_extension and remove_extension
ExtensionTyped(raw) == lower(strip(raw))

\* add_category(config) on what the operator typed
add_category(cfg, raw) ==
  LET name == strip(raw)
  IN IF name = <<>> THEN cfg
     ELSE IF InConfig(cfg, name) THEN cfg
     ELSE Append(cfg, [category |-> name, extensions |-> <<>>])

\* remove_category(config)
remove_category(cfg, raw) ==
  LET name == strip(raw)
  IN IF ~InConfig(cfg, name) THEN cfg ELSE DelCategory(cfg, name)

\* add_extension(config): the extension is asked for only when the category
\* is known
add_extension(cfg, raw_category, raw_ext) ==
  LET category == strip(raw_category)
      ext == ExtensionTyped(raw_ext)
  IN IF ~InConfig(cfg, category) THEN cfg
     ELSE IF ext = <<>> \/ Head(ext) # "." THEN cfg
     ELSE IF ext \in Range(ExtensionsOf(cfg, category)) THEN cfg
     ELSE WithExtensions(cfg, category, Append(ExtensionsOf(cfg, category), ext))

\* remove_extension(config)
remove_extension(cfg, raw_category, raw_ext) ==
  LET category == strip(raw_category)
      ext == ExtensionTyped(raw_ext)
  IN IF ~InConfig(cfg, category) THEN cfg
     ELSE IF ext \notin Range(ExtensionsOf(cfg, category)) THEN cfg
     ELSE WithExtensions(cfg, category, ListRemove(ExtensionsOf(cfg, category), ext))

\* two invocations of the organizer on one directory at the same time
Procs == {1, 2}

\* the file each of them moves, and the record it passes to log_move
ProcName(p) == IF p = 1 THEN NameA ELSE NameB
ProcSource(p) == <<ROOT, ProcName(p)>>
ProcTarget(p) ==
  <<find_target_folder(get_file_extension(ProcName(p)), sorting_rules), ProcName(p)>>
\* (the record's timestamp is later than the one of a record of an earlier pass)
ProcRecord(p) == MoveRecord(1, ProcSource(p), ProcTarget(p))

\* the statements of one invocation that touch the shared directory, in
\* program order: the process is started, shutil.move, then log_move: the
\* document is read, the file is opened for writing, the list is dumped
ProcOps == <<"start", "move", "read", "open", "dump">>

Event(p, op, seen) == [proc |-> p, op |-> op, seen |-> seen]

\* the statements process p has executed
Done(trace, p) == Cardinality({i \in 1..Len(trace) : trace[i].proc = p})

\* the next statement of process p
AtOp(trace, p, op) == Done(trace, p) < Len(ProcOps) /\ ProcOps[Done(trace, p) + 1] = op

\* the list process p got from its read of the document
Seen(trace, p) ==
  LET i == CHOOSE i \in 1..Len(trace) : trace[i].proc = p /\ trace[i].op = "read"
  IN trace[i].seen

\* fault: the read always starts a new log
LoadedMovesNone(f) == <<>>

\* log_move lines 297-311: the list in the document, or the empty list when
\* the file is absent, is not JSON or is not a list
LoadedMoves(f) ==
  IF LogPath \in DOMAIN f /\ f[LogPath].kind = "log" THEN f[LogPath].recs ELSE <<>>

\* open(log_file, 'w'): the file exists and is empty
Truncated(f) == Put(f, LogPath, Data(0))

\* json.dump(moves, f): the document is the list that was read plus the record
Dumped(f, seen, rec) == Put(f, LogPath, LogDoc(Append(seen, rec)))

\* the most attempts one call of create_folder_if_not_exists is followed through
MaxAttempts == 3

\* what folder_path.mkdir does at each attempt, and what prompt_retry returns
\* after each failed attempt
MkdirFaults == [1..MaxAttempts -> {"ok", "PermissionError", "OSError", "Exception"}]
RetryAnswers == [1..MaxAttempts -> BOOLEAN]

\* fault: only the two OS error handlers exist
CreateFolderCaughtOS(exc) == exc \in {"PermissionError", "OSError"}

\* the except clauses of create_folder_if_not_exists: PermissionError,
\* OSError, Exception
CreateFolderCaught(exc) == exc \in {"PermissionError", "OSError", "Exception"}

\* what is seen of a call: a sleep of some seconds, the return, or the error
\* that leaves the function
Slept(seconds) == [kind |-> "sleep", seconds |-> seconds, error |-> "none"]
Returned == [kind |-> "return", seconds |-> 0, error |-> "none"]
Raised(error) == [kind |-> "raise", seconds |-> 0, error |-> error]

\* fault: every error is retried like a permission error
RetryDecisionRetriesAll(out, k, retries) ==
  IF out = "ok" THEN "return"
  ELSE IF k < retries - 1 THEN "sleep"
  ELSE "raise"

\* the body of the for loop of move_file_with_retry for one attempt
RetryDecision(out, k, retries) ==
  IF out = "ok" THEN "return"
  ELSE IF out = "PermissionError" /\ k < retries - 1 THEN "sleep"
  ELSE "raise"

\* a directory after a pass: a.jpg is in it, B.pdf is in Documents/, and
\* py_sort_moves.json holds the document d
OrganizedTree(d) ==
  LET files == Put(Put(EmptyFs, <<ROOT, NameA>>, Data(1)), <<"Documents", NameB>>, Data(2))
  IN IF d = Absent THEN files ELSE Put(files, LogPath, d)

UnitInit ==
  /\ AtRest
  /\ passes = 0
  /\ unit_out = <<>>
  /\ \/ /\ \E e \in UnitExtensions, r \in RulesTables :
              unit_in = [fn |-> "find_target_folder", file_extension |-> e, sorting_rules |-> r]
        /\ pc = "call"
        /\ fs = EmptyFs
        /\ dirs = {}
        /\ existing_names = {}
     \/ /\ \E q \in CallSequences, pat \in UnitPatterns :
              /\ unit_in = [fn |-> "rename_file", file_names |-> q, pattern |-> pat]
              /\ existing_names \in {{}, Range(q)}
        /\ pc = "call"
        /\ fs = EmptyFs
        /\ dirs = {}
     \/ /\ \E d \in StoredDocuments :
              /\ unit_in = [fn |-> "log_move", stored |-> d]
              /\ fs = IF d = Absent THEN EmptyFs ELSE Put(EmptyFs, LogPath, d)
        /\ pc = "call"
        /\ dirs = {}
        /\ existing_names = {}
     \/ /\ \E n \in ClassifiedNames, r \in RulesTables :
              unit_in = [fn |-> "get_file_extension", file_name |-> n, sorting_rules |-> r]
        /\ pc = "call"
        /\ fs = EmptyFs
        /\ dirs = {}
        /\ existing_names = {}
     \/ /\ \E c \in ConfigDocuments :
              unit_in = [fn |-> "load_sorting_rules", config |-> c]
        /\ pc = "call"
        /\ fs = EmptyFs
        /\ dirs = {}
        /\ existing_names = {}
     \/ /\ \E d \in StoredDocuments, target \in Targets :
              /\ unit_in = [fn |-> "undo_organization", directory_path |-> target]
              /\ fs = OrganizedTree(d)
        /\ pc = "idle"
        /\ dirs = {"Documents"}
        /\ existing_names = {}
     \/ /\ \E n \in 1..MaxRetriesArg, d \in {initial_delay, 3} :
              \E o \in MoveFaults(n) :
                unit_in = [fn |-> "move_file_with_retry", max_retries |-> n, delay |-> d,
                           faults |-> o]
        /\ fs = Put(EmptyFs, <<ROOT, NameA>>, Data(1))
        /\ pc = "call"
        /\ dirs = {"Images"}
        /\ existing_names = {}
     \/ /\ \E o \in MkdirFaults, a \in RetryAnswers :
              unit_in = [fn |-> "create_folder_if_not_exists", folder_path |-> "Images",
                         faults |-> o, answers |-> a]
        /\ fs = EmptyFs
        /\ pc = "call"
        /\ dirs \in {{}, {"Images"}}
        /\ existing_names = {}
     \/ /\ \E d \in {Absent, LogDoc(<<OldRecord>>)} :
              LET files == Put(Put(EmptyFs, <<ROOT, NameA>>, Data(1)), <<ROOT, NameB>>, Data(2))
              IN /\ unit_in = [fn |-> "run_organizer", directory_path |-> RootDir, stored |-> d]
                 /\ fs = IF d = Absent THEN files ELSE Put(files, LogPath, d)
        /\ pc = "call"
        /\ dirs = {"Images", "Documents"}
        /\ existing_names = {}
     \/ /\ \E c \in StoredConfigs : unit_in = [fn |-> "menu", stored |-> c]
        /\ fs = EmptyFs
        /\ pc = "menu"
        /\ dirs = {}
        /\ existing_names = {}
     \/ /\ \E u \in BOOLEAN, d \in BOOLEAN, pat \in {<<>>} \cup Patterns :
              unit_in = [fn |-> "main", directory |-> RootDir, undo |-> u, dry_run |-> d,
                         rename |-> pat]
        /\ fs = OrganizedTree(LogDoc(<<OldRecord>>))
        /\ pc = "idle"
        /\ dirs = {"Documents"}
        /\ existing_names = {}
     \/ /\ \E f \in {"organize_files", "organize_files_with_rename"},
              target \in Targets \ {RootDir} :
              unit_in = [fn |-> f, directory_path |-> target]
        /\ fs = OrganizedTree(LogDoc(<<OldRecord>>))
        /\ pc = "idle"
        /\ dirs = {"Documents"}
        /\ existing_names = {}
  /\ delay = IF unit_in.fn = "move_file_with_retry" THEN unit_in.delay ELSE initial_delay
  /\ editor_config = IF unit_in.fn = "menu" THEN unit_in.stored ELSE <<>>

restVars == <<dirs, nextId, hist, fs0, directory_path, mode, dry_run, rename_pattern, files_to_organize,
              idx, target_file_path, moved_count, skipped_count, total_size, category_stats,
              sorted_categories, attempt, delay, undoVars, editor_config>>

\* find_target_folder(file_extension, sorting_rules)
CallFindTargetFolder ==
  /\ pc = "call"
  /\ unit_in.fn = "find_target_folder"
  /\ unit_out' = <<find_target_folder(unit_in.file_extension, unit_in.sorting_rules)>>
  /\ pc' = "returned"
  /\ UNCHANGED <<fs, failBudget, passes, existing_names, unit_in, restVars>>

\* the next rename_file(file_path, pattern, existing_names) of the sequence, in
\* the second t
CallRenameFile(t) ==
  /\ pc = "call"
  /\ unit_in.fn = "rename_file"
  /\ Len(unit_out) < Len(unit_in.file_names)
  /\ t \in {passes, passes + 1}
  /\ t < MaxPasses
  /\ LET candidate == rename_file(unit_in.file_names[Len(unit_out) + 1], unit_in.pattern,
                                  existing_names, t)
     IN /\ existing_names' = existing_names \cup {candidate}
        /\ unit_out' = Append(unit_out, candidate)
  /\ passes' = t
  /\ UNCHANGED <<fs, failBudget, pc, unit_in, restVars>>

\* log_move(directory, original_path, new_path) for a file moved to its folder
CallLogMove(name) ==
  /\ pc = "call"
  /\ unit_in.fn = "log_move"
  /\ Len(unit_out) < MaxCalls
  /\ LET original_path == <<ROOT, name>>
         new_path == <<find_target_folder(get_file_extension(name), sorting_rules), name>>
     IN \E written \in WriteOutcomes :
          /\ fs' = log_move(fs, original_path, new_path, now, written)
          /\ failBudget' = IF written = "ok" THEN failBudget ELSE failBudget - 1
          /\ unit_out' = Append(unit_out, [record |-> MoveRecord(now, original_path, new_path),
                                           written |-> written])
  /\ UNCHANGED <<passes, pc, existing_names, unit_in, restVars>>

\* a file classified as the loop body does it: get_file_extension(file_path),
\* then find_target_folder on what it returned
CallGetFileExtension ==
  /\ pc = "call"
  /\ unit_in.fn = "get_file_extension"
  /\ LET file_extension == get_file_extension(unit_in.file_name)
         target_folder == find_target_folder(file_extension, unit_in.sorting_rules)
     IN unit_out' = <<file_extension, target_folder>>
  /\ pc' = "returned"
  /\ UNCHANGED <<fs, failBudget, passes, existing_names, unit_in, restVars>>

\* load_sorting_rules(config_path)
CallLoadSortingRules ==
  /\ pc = "call"
  /\ unit_in.fn = "load_sorting_rules"
  /\ unit_out' = <<load_sorting_rules(unit_in.config)>>
  /\ pc' = "returned"
  /\ UNCHANGED <<fs, failBudget, passes, existing_names, unit_in, restVars>>

\* undo_organization(directory_path), and the steps of the pass it starts
CallUndoOrganization ==
  /\ unit_in.fn = "undo_organization"
  /\ UndoStart(unit_in.directory_path)

\* organize_files(directory_path, dry_run)
CallOrganizeFiles(d) ==
  /\ unit_in.fn = "organize_files"
  /\ OrganizeStart("plain", d, <<>>, unit_in.directory_path)

\* organize_files_with_rename(directory_path, dry_run, rename_pattern)
CallOrganizeFilesWithRename(d, pat) ==
  /\ unit_in.fn = "organize_files_with_rename"
  /\ OrganizeStart("rename", d, pat, unit_in.directory_path)

\* move_file_with_retry(src, dst, max_retries, delay) for a.jpg and Images/a.jpg:
\* one attempt of its for loop
CallMoveFileWithRetry ==
  /\ pc = "call"
  /\ unit_in.fn = "move_file_with_retry"
  /\ attempt < unit_in.max_retries
  /\ LET src == <<ROOT, NameA>>
         dst == <<"Images", NameA>>
         out == unit_in.faults[attempt + 1]
         decision == RetryDecision(out, attempt, unit_in.max_retries)
     IN /\ fs' = IF out = "ok" THEN shutil_move(fs, src, dst) ELSE fs
        /\ IF decision = "return"
           THEN /\ unit_out' = Append(unit_out, Returned)
                /\ pc' = "returned"
                /\ UNCHANGED <<attempt, delay>>
           ELSE IF decision = "sleep"
           THEN /\ unit_out' = Append(unit_out, Slept(delay))
                /\ delay' = delay * 2
                /\ attempt' = attempt + 1
                /\ UNCHANGED pc
           ELSE /\ unit_out' = Append(unit_out, Raised(out))
                /\ pc' = "raised"
                /\ UNCHANGED <<attempt, delay>>
  /\ UNCHANGED <<dirs, nextId, passes, hist, fs0, failBudget, directory_path, mode, dry_run,
                 rename_pattern, files_to_organize, idx, existing_names, target_file_path,
                 moved_count, skipped_count, total_size, category_stats, sorted_categories,
                 undoVars, unit_in, editor_config>>

\* create_folder_if_not_exists(folder_path): one pass of its while loop up to
\* the return or the call of prompt_retry
CallCreateFolder ==
  /\ pc = "call"
  /\ unit_in.fn = "create_folder_if_not_exists"
  /\ attempt < MaxAttempts
  /\ LET out == unit_in.faults[attempt + 1]
     IN IF unit_in.folder_path \in dirs
        THEN /\ pc' = "returned"
             /\ UNCHANGED <<dirs, unit_out, attempt>>
        ELSE /\ attempt' = attempt + 1
             /\ unit_out' = Append(unit_out, "mkdir")
             /\ dirs' = IF out = "ok" THEN dirs \cup {unit_in.folder_path} ELSE dirs
             /\ pc' = IF out = "ok" THEN "returned"
                      ELSE IF CreateFolderCaught(out) THEN "prompt"
                      ELSE "raised"
  /\ UNCHANGED <<fs, nextId, passes, hist, fs0, failBudget, directory_path, mode, dry_run,
                 rename_pattern, files_to_organize, idx, existing_names, target_file_path,
                 moved_count, skipped_count, total_size, category_stats, sorted_categories,
                 delay, undoVars, unit_in, editor_config>>

\* if not prompt_retry(...): return
CreateFolderAnswer ==
  /\ pc = "prompt"
  /\ unit_in.fn = "create_folder_if_not_exists"
  /\ unit_out' = Append(unit_out, "prompt")
  /\ pc' = IF unit_in.answers[attempt] THEN "call" ELSE "returned"
  /\ UNCHANGED <<fs, dirs, nextId, passes, hist, fs0, failBudget, directory_path, mode, dry_run,
                 rename_pattern, files_to_organize, idx, existing_names, target_file_path,
                 moved_count, skipped_count, total_size, category_stats, sorted_categories,
                 attempt, delay, undoVars, unit_in, editor_config>>

\* OrganizerGUI.run_organizer: a click of Run starts one more thread and
\* subprocess, whatever the earlier ones are doing
RunOrganizer ==
  /\ pc = "call"
  /\ unit_in.fn = "run_organizer"
  /\ \E p \in Procs :
       /\ AtOp(unit_out, p, "start")
       /\ \A q \in Procs : q < p => ~AtOp(unit_out, q, "start")
       /\ unit_out' = Append(unit_out, Event(p, "start", <<>>))
  /\ UNCHANGED <<fs, failBudget, passes, pc, existing_names, unit_in, restVars>>

\* shutil.move(file_path, target_file_path) of the invocation succeeds
ProcMove(p) ==
  /\ pc = "call"
  /\ unit_in.fn = "run_organizer"
  /\ AtOp(unit_out, p, "move")
  /\ fs' = shutil_move(fs, ProcSource(p), ProcTarget(p))
  /\ unit_out' = Append(unit_out, Event(p, "move", <<>>))
  /\ UNCHANGED <<failBudget, passes, pc, existing_names, unit_in, restVars>>

\* log_move lines 296-311: moves = json.load(f), or the empty list
ProcLogRead(p) ==
  /\ pc = "call"
  /\ unit_in.fn = "run_organizer"
  /\ AtOp(unit_out, p, "read")
  /\ unit_out' = Append(unit_out, Event(p, "read", LoadedMoves(fs)))
  /\ UNCHANGED <<fs, failBudget, passes, pc, existing_names, unit_in, restVars>>

\* log_move line 318: open(log_file, 'w')
ProcLogOpen(p) ==
  /\ pc = "call"
  /\ unit_in.fn = "run_organizer"
  /\ AtOp(unit_out, p, "open")
  /\ fs' = Truncated(fs)
  /\ unit_out' = Append(unit_out, Event(p, "open", <<>>))
  /\ UNCHANGED <<failBudget, passes, pc, existing_names, unit_in, restVars>>

\* log_move lines 312-319: moves.append(record); json.dump(moves, f)
ProcLogDump(p) ==
  /\ pc = "call"
  /\ unit_in.fn = "run_organizer"
  /\ AtOp(unit_out, p, "dump")
  /\ fs' = Dumped(fs, Seen(unit_out, p), ProcRecord(p))
  /\ unit_out' = Append(unit_out, Event(p, "dump", <<>>))
  /\ UNCHANGED <<failBudget, passes, pc, existing_names, unit_in, restVars>>

\* what menu() leaves unchanged
menuRest == <<fs, dirs, failBudget, nextId, passes, hist, fs0, orgVars, undoVars, unit_in>>

\* menu(): one turn of its loop, by the option chosen; unit_out holds the
\* option and what the operator typed at the prompts of the function called
MenuView ==
  /\ pc = "menu"
  /\ unit_out' = <<[choice |-> "1", category |-> <<>>, ext |-> <<>>]>>
  /\ UNCHANGED <<pc, editor_config, menuRest>>

MenuAddCategory(raw) ==
  /\ pc = "menu"
  /\ editor_config' = add_category(editor_config, raw)
  /\ unit_out' = <<[choice |-> "2", category |-> raw, ext |-> <<>>]>>
  /\ UNCHANGED <<pc, menuRest>>

MenuRemoveCategory(raw) ==
  /\ pc = "menu"
  /\ editor_config' = remove_category(editor_config, raw)
  /\ unit_out' = <<[choice |-> "3", category |-> raw, ext |-> <<>>]>>
  /\ UNCHANGED <<pc, menuRest>>

MenuAddExtension(raw_category, raw_ext) ==
  /\ pc = "menu"
  /\ editor_config' = add_extension(editor_config, raw_category, raw_ext)
  /\ unit_out' = <<[choice |-> "4", category |-> raw_category, ext |-> raw_ext]>>
  /\ UNCHANGED <<pc, menuRest>>

MenuRemoveExtension(raw_category, raw_ext) ==
  /\ pc = "menu"
  /\ editor_config' = remove_extension(editor_config, raw_category, raw_ext)
  /\ unit_out' = <<[choice |-> "5", category |-> raw_category, ext |-> raw_ext]>>
  /\ UNCHANGED <<pc, menuRest>>

\* options 6 and 7: save_config(config) and break, or break
MenuExit(save) ==
  /\ pc = "menu"
  /\ pc' = "returned"
  /\ unit_out' = <<[choice |-> IF save THEN "6" ELSE "7", category |-> <<>>, ext |-> <<>>]>>
  /\ UNCHANGED <<editor_config, menuRest>>

\* main() on parsed arguments: --undo wins over everything else and is called
\* without the dry-run flag, then --rename, then the plain pass
CallMain ==
  /\ unit_in.fn = "main"
  /\ IF unit_in.undo
     THEN UndoStart(unit_in.directory)
     ELSE IF unit_in.rename # <<>>
     THEN OrganizeStart("rename", unit_in.dry_run, unit_in.rename, unit_in.directory)
     ELSE OrganizeStart("plain", unit_in.dry_run, <<>>, unit_in.directory)

UnitNext ==
  \/ CallFindTargetFolder
  \/ \E t \in 0..MaxPasses : CallRenameFile(t)
  \/ \E name \in UnitNames : CallLogMove(name)
  \/ CallGetFileExtension
  \/ CallLoadSortingRules
  \/ CallUndoOrganization
  \/ \E a \in ConfirmAnswers : UndoConfirm(a)
  \/ UndoRecord
  \/ UndoMove
  \/ \E r \in Answers : UndoPrompt(r)
  \/ UndoFinish
  \/ \E d \in BOOLEAN : CallOrganizeFiles(d)
  \/ \E d \in BOOLEAN, pat \in Patterns : CallOrganizeFilesWithRename(d, pat)
  \/ CallMain
  \/ CallMoveFileWithRetry
  \/ CallCreateFolder
  \/ RunOrganizer
  \/ MenuView
  \/ \E raw \in CategoryInputs : MenuAddCategory(raw)
  \/ \E raw \in CategoryInputs : MenuRemoveCategory(raw)
  \/ \E raw_category \in CategoryInputs, raw_ext \in ExtInputs :
       MenuAddExtension(raw_category, raw_ext)
  \/ \E raw_category \in CategoryInputs, raw_ext \in ExtInputs :
       MenuRemoveExtension(raw_category, raw_ext)
  \/ \E save \in BOOLEAN : MenuExit(save)
  \/ \E p \in Procs : ProcMove(p)
  \/ \E p \in Procs : ProcLogRead(p)
  \/ \E p \in Procs : ProcLogOpen(p)
  \/ \E p \in Procs : ProcLogDump(p)
  \/ CreateFolderAnswer
  \/ OrganizeFile
  \/ \E r \in Answers : CreateFolderPrompt(r)
  \/ MoveFileWithRetry
  \/ OrganizeMove
  \/ \E r \in Answers : OrganizePrompt(r)
  \/ OrganizeSummary

UnitSpec == UnitInit /\ [][UnitNext]_vars

\* -------------------------------------------------------------- properties
OrganizePcs == {"org_file", "mkdir_prompt", "mfwr", "org_move", "org_prompt"}
UndoPcs == {"undo_record", "undo_move", "undo_prompt"}
AttemptPcs == {"mfwr", "org_move"}

LastHist == IF hist = <<>> THEN "none" ELSE hist[Len(hist)]

LogRecs(f) == IF LogPath \in DOMAIN f /\ f[LogPath].kind = "log" THEN f[LogPath].recs ELSE <<>>

\* a directory that holds only data files, all of them directly in it
FreshDirectory(f) ==
  /\ DOMAIN f # {}
  /\ \A p \in DOMAIN f : p[1] = ROOT /\ f[p].kind = "data"

\* the destination the current iteration computes
ComputedDestination ==
  <<CurrentFolder,
    IF mode = "rename" THEN rename_file(CurrentName, rename_pattern, existing_names, now)
    ELSE CurrentName>>

\* C1: organize then undo, on a directory of N files with no collision, with no
\* I/O failure and the undo confirmed, puts every file back at its original
\* path with its content, leaves no file in a category folder, and
\* restored_count is N.
C1_RoundTrip ==
  (/\ pc = "idle"
   /\ Len(hist) = 2
   /\ hist[1] = "organize"
   /\ hist[2] \in {"undo", "undo_nolog", "undo_empty", "undo_malformed"}
   /\ failBudget = MaxFail
   /\ FreshDirectory(fs0))
  => /\ \A p \in DOMAIN fs0 : p \in DOMAIN fs /\ fs[p] = fs0[p]
     /\ \A p \in DOMAIN fs : fs[p].kind = "data" => p[1] = ROOT
     /\ restored_count = Cardinality(DOMAIN fs0)

\* C2: after a confirmed undo pass over all records the persisted log is the
\* empty list.
C2_LogEmptyAfterUndo ==
  (pc = "idle" /\ LastHist = "undo") => (LogPath \in DOMAIN fs /\ fs[LogPath] = LogDoc(<<>>))

C3_Step ==
     pc \in OrganizePcs =>
       /\ \A p \in DOMAIN fs \ {LogPath} : p \in DOMAIN fs' => fs'[p] = fs[p]
       /\ (pc = "org_file" /\ idx <= Len(files_to_organize)
           /\ failBudget' = failBudget
           /\ ComputedDestination \in DOMAIN fs)
          => /\ fs' = fs
             /\ skipped_count' = skipped_count + 1
             /\ moved_count' = moved_count
             /\ idx' = idx + 1
             /\ pc' = "org_file"

\* C3: organize never replaces the content of an existing file, and a file
\* for which the destination is computed (its size was read) and exists is
\* skipped in one step: the file system is untouched, skipped_count grows by
\* one, moved_count stays, and the pass goes on to the next file without a
\* retry prompt.
C3_OrganizeNeverOverwrites == [][C3_Step]_vars

C3_Witness ==
  /\ pc = "org_file"
  /\ ~dry_run
  /\ idx > 1
  /\ skipped_count = 1
  /\ moved_count = 0
  /\ <<ROOT, files_to_organize[idx - 1]>> \in DOMAIN fs
  /\ target_file_path \in DOMAIN fs0
  /\ fs[target_file_path] = fs0[target_file_path]

C4_Step ==
     pc \in UndoPcs =>
       /\ \A p \in DOMAIN fs : p \in DOMAIN fs' => fs'[p] = fs[p]
       /\ (pc = "undo_record" /\ upos <= Len(moves)
           /\ moves[CurrentRecord].original \in DOMAIN fs)
          => /\ fs' = fs
             /\ u_skipped_count' = u_skipped_count + 1
             /\ restored_count' = restored_count
             /\ outcome'[CurrentRecord] \in {"SkippedConflict", "SkippedMissing"}

\* C4: undo never replaces the content of an existing file, and a record whose
\* original path is occupied when it is processed is skipped with the file
\* system untouched, also when several records share one original path.
C4_UndoNeverOverwrites == [][C4_Step]_vars

C4_Witness ==
  /\ pc \in UndoPcs
  /\ \E i, j \in 1..Len(moves) :
       /\ i # j
       /\ moves[i].original = moves[j].original
       /\ moves[i].new # moves[j].new
       /\ outcome[j] = "Restored"
       /\ outcome[i] = "SkippedConflict"
       /\ moves[i].new \in DOMAIN fs

\* C5: a non dry-run organize pass that starts from a well-formed log of length
\* L, and meets no I/O failure, ends with a log of length L + moved_count whose
\* first L records are the old ones.
C5_LogGrowsByMovedCount ==
  (pc = "idle" /\ LastHist = "organize" /\ failBudget = MaxFail)
  => /\ Len(LogRecs(fs)) = Len(LogRecs(fs0)) + moved_count
     /\ SubSeq(LogRecs(fs), 1, Len(LogRecs(fs0))) = LogRecs(fs0)

C6_Step ==
     ((pc \in OrganizePcs /\ dry_run) \/ (pc' \in OrganizePcs /\ dry_run'))
       => (fs' = fs /\ dirs' = dirs)

\* C6: no step of a dry-run organize pass changes a file, a folder or the log.
C6_DryRunChangesNothing == [][C6_Step]_vars

C6_Witness ==
  /\ pc = "idle"
  /\ Len(hist) >= 2
  /\ hist[Len(hist)] = "organize_dry"
  /\ hist[Len(hist) - 1] = "organize_dry"
  /\ Len(files_to_organize) = 2
  /\ skipped_count = 0
  /\ dirs = {}

\* C7: undo handles the records from the last one of the log to the first: a
\* record is still pending as long as a record appended after it is pending.
C7_UndoReverseOrder ==
  \A i, j \in 1..Len(outcome) :
     (i < j /\ outcome[j] = "Pending") => outcome[i] = "Pending"

C7_Witness ==
  /\ pc = "undo_record"
  /\ Len(moves) >= 2
  /\ outcome[Len(moves)] # "Pending"
  /\ outcome[1] = "Pending"

C8_Step ==
     ((pc = "idle" /\ pc' = "undo_confirm") \/ pc = "undo_confirm")
       => /\ fs' = fs
          /\ dirs' = dirs
          /\ ((pc = "undo_confirm" /\ confirm' # "y") => pc' = "idle")

\* C8: up to and including the confirmation prompt undo changes no file and no
\* folder (it never writes the log), and any answer other than y ends it.
C8_NoMutationBeforeConfirm == [][C8_Step]_vars

C8_Witness ==
  /\ pc = "idle"
  /\ LastHist = "undo_cancelled"
  /\ confirm = "yes"
  /\ Len(moves) >= 1
  /\ \A i \in 1..Len(moves) : moves[i].new \in DOMAIN fs

C9_Step ==
     /\ (pc \in AttemptPcs /\ fs' = fs) => (pc' \notin AttemptPcs /\ delay' = delay)
     /\ pc = "org_prompt"
        => \/ pc' = "org_move"
           \/ (pc' = "org_file" /\ idx' = idx + 1 /\ skipped_count' = skipped_count + 1)

\* C9: after a failed move attempt of an organize pass nothing is re-attempted
\* and no delay is taken on the program's own account: the operator is asked
\* or the file is given up; a yes leads to the next attempt, a no to the file
\* counted as skipped.
C9_RetryOnlyAfterYes == [][C9_Step]_vars

C10_Step ==
     (pc = "org_prompt" /\ pc' # "org_move")
       => /\ skipped_count' = skipped_count + 1
          /\ CurrentSource \in DOMAIN fs'
          /\ fs' = fs
          /\ idx' = idx + 1
          /\ pc' = "org_file"

\* C10: a declined retry ends the work on the file with the file counted as
\* skipped and still at its source path, and the pass goes on with the next
\* file of the listing.
C10_DeclineSkipsOneFile == [][C10_Step]_vars

C11_Step ==
     (/\ pc = "org_file"
      /\ idx <= Len(files_to_organize)
      /\ failBudget' < failBudget
      /\ pc' # "mkdir_prompt")
       => /\ skipped_count' = skipped_count + 1
          /\ moved_count' = moved_count
          /\ idx' = idx + 1
          /\ pc' = "org_file"
          /\ files_to_organize' = files_to_organize

\* C11: when reading the size of a file of an organize pass raises an error,
\* the error is caught at that file: the file is counted as skipped and the
\* loop goes on with the next file of the listing.
C11_ErrorCaughtPerFile == [][C11_Step]_vars

\* the categories of a rules table that list an extension
ListedIn(r, e) == {i \in 1..Len(r) : e \in r[i].exts}

\* C12: find_target_folder returns the category of an extension that exactly
\* one category of the rules table lists, and "Other" for an extension that no
\* category lists.
C12_Classification ==
  (pc = "returned" /\ unit_in.fn = "find_target_folder")
  => LET r == unit_in.sorting_rules
         L == ListedIn(r, unit_in.file_extension)
     IN /\ Cardinality(L) = 1 => \A i \in L : unit_out[1] = r[i].folder
        /\ L = {} => unit_out[1] = "Other"

C12_Witness ==
  /\ pc = "returned"
  /\ unit_in.fn = "find_target_folder"
  /\ Len(unit_in.sorting_rules) = 2
  /\ ListedIn(unit_in.sorting_rules, unit_in.file_extension) = {2}
  /\ unit_out = <<"Documents">>

C13_Step ==
     (unit_in.fn = "rename_file" /\ Len(unit_out') = Len(unit_out) + 1)
       => LET returned == unit_out'[Len(unit_out')]
          IN /\ returned \notin existing_names
             /\ returned \in existing_names'
             /\ \A i \in 1..Len(unit_out) : unit_out[i] # returned
             /\ existing_names \subseteq existing_names'

\* C13: in a sequence of rename_file calls that share one existing_names set,
\* every returned name differs from all names returned before, was not in the
\* set before its call and is in the set after it.
C13_RenameUnique == [][C13_Step]_vars

C13_Witness ==
  /\ unit_in.fn = "rename_file"
  /\ unit_in.pattern = PatternLiteral
  /\ unit_in.file_names = <<NamePhotoUpper, NamePhotoUpper>>
  /\ unit_out = << <<"x", ".", "J", "P", "G">>, <<"x", "_", "1", ".", "J", "P", "G">> >>
  /\ Range(unit_out) \subseteq existing_names

\* Photo.JPG then photo.jpg with {lower}_{date}, both calls in second 0, on a
\* set that held nothing or the two file names
PhotoScenario ==
  /\ unit_in.fn = "rename_file"
  /\ unit_in.pattern = PatternLowerDate
  /\ unit_in.file_names = <<NamePhotoUpper, NamePhotoLower>>
  /\ Len(unit_out) = 2
  /\ passes = 0

\* the name ends in _1 before its extension
CarriesSuffix1(name) ==
  LET st == stem(name)
  IN Len(st) >= 2 /\ SubSeq(st, Len(st) - 1, Len(st)) = <<"_", "1">>

\* C14 as stated: the second of the two calls returns a name with the _1
\* suffix before its extension, and both returned names are in existing_names.
C14_SecondGetsSuffix ==
  PhotoScenario => (CarriesSuffix1(unit_out[2]) /\ Range(unit_out) \subseteq existing_names)

\* C14 amended: the two calls return the distinct names photo_<date>.JPG and
\* photo_<date>.jpg, the second without a counter suffix because the extension
\* keeps its case, and both returned names are in existing_names.
C14_DistinctWithoutSuffix ==
  PhotoScenario
  => /\ unit_out[1] = <<"p", "h", "o", "t", "o", "_", "d", "0", ".", "J", "P", "G">>
     /\ unit_out[2] = <<"p", "h", "o", "t", "o", "_", "d", "0", ".", "j", "p", "g">>
     /\ unit_out[1] # unit_out[2]
     /\ ~CarriesSuffix1(unit_out[2])
     /\ Range(unit_out) \subseteq existing_names

C14_Witness ==
  /\ PhotoScenario
  /\ unit_out[1] # unit_out[2]
  /\ lower(unit_out[1]) = lower(unit_out[2])
  /\ Range(unit_out) \subseteq existing_names

\* C15: after a non dry-run organize pass in which no file was skipped, no
\* regular file is left directly in the organized directory.
C15_RootEmptyAfterOrganize ==
  (pc = "idle" /\ LastHist = "organize" /\ skipped_count = 0) => RootFiles = {}

RECURSIVE SumCount(_)
SumCount(cs) == IF cs = <<>> THEN 0 ELSE Head(cs).count + SumCount(Tail(cs))

RECURSIVE SumSize(_)
SumSize(cs) == IF cs = <<>> THEN 0 ELSE Head(cs).size + SumSize(Tail(cs))

\* the listed files of a category that are no longer at their source path
MovedOf(c) ==
  {i \in 1..Len(files_to_organize) :
     /\ find_target_folder(get_file_extension(files_to_organize[i]), sorting_rules) = c
     /\ <<ROOT, files_to_organize[i]>> \notin DOMAIN fs}

\* C16: at the end of a non dry-run organize pass the category counts add up to
\* moved_count, the category byte totals add up to total_size, and no category
\* counts more files than were moved into it: a skipped file is in no category.
C16_StatsCountMovedOnly ==
  (pc = "idle" /\ LastHist = "organize")
  => /\ SumCount(category_stats) = moved_count
     /\ SumSize(category_stats) = total_size
     /\ \A i \in 1..Len(category_stats) :
          category_stats[i].count <= Cardinality(MovedOf(category_stats[i].category))

C17_Step ==
     (/\ pc = "org_file"
      /\ idx <= Len(files_to_organize)
      /\ dry_run
      /\ ComputedDestination \notin DOMAIN fs
      /\ failBudget' = failBudget
      /\ idx' = idx + 1)
       => /\ moved_count' = moved_count + 1
          /\ total_size' = total_size + getsize(fs[CurrentSource])
          /\ SumCount(category_stats') = SumCount(category_stats) + 1
          /\ \E i \in 1..Len(category_stats') :
               /\ category_stats'[i].category = CurrentFolder
               /\ category_stats'[i].count = 1 + SumCount(SelectSeq(category_stats,
                                                   LAMBDA x : x.category = CurrentFolder))

\* C17: in a dry-run pass, plain or with rename, a file whose destination is
\* free is counted as if it had been moved: moved_count grows by one,
\* total_size by its size, and the count of its category by one.
C17_DryRunCountsWouldMove == [][C17_Step]_vars

\* category names in ascending order
NameRank(c) == CASE c = "Documents" -> 1 [] c = "Images" -> 2 [] OTHER -> 3

\* C18: the category lines of the summary are in descending order of count,
\* and lines of equal count in ascending order of category name.
C18_SummaryOrder ==
  \A i, j \in 1..Len(sorted_categories) :
     i < j => \/ sorted_categories[i].count > sorted_categories[j].count
              \/ /\ sorted_categories[i].count = sorted_categories[j].count
                 /\ NameRank(sorted_categories[i].category)
                      < NameRank(sorted_categories[j].category)

\* a JSON list whose elements are all records
ListOfRecords(d) == d.kind = "log" /\ \A i \in 1..Len(d.recs) : d.recs[i].shape = "record"

\* C19: when the stored log is not a list of records (not JSON, not a list, or
\* a list with an element that is not a record), the first log_move that
\* writes leaves a log holding exactly the new record.
C19_MalformedLogRestarted ==
  (/\ unit_in.fn = "log_move"
   /\ unit_in.stored # Absent
   /\ ~ListOfRecords(unit_in.stored)
   /\ Len(unit_out) = 1
   /\ unit_out[1].written = "ok")
  => (LogPath \in DOMAIN fs /\ fs[LogPath] = LogDoc(<<unit_out[1].record>>))

\* a file of this rename pass has left its source path and the log holds no
\* record of it: its record could not be written
UnloggedMove ==
  /\ pc \in OrganizePcs
  /\ mode = "rename"
  /\ ~dry_run
  /\ \E j \in 1..Len(files_to_organize) :
       /\ j < idx
       /\ <<ROOT, files_to_organize[j]>> \notin DOMAIN fs
       /\ \A k \in 1..Len(LogRecs(fs)) :
            ~(/\ LogRecs(fs)[k].original = <<ROOT, files_to_organize[j]>>
              /\ LogRecs(fs)[k].timestamp = now)

C20_Step ==
     UnloggedMove => \A p \in DOMAIN fs : fs[p].kind = "data" => p \in DOMAIN fs'

\* C20: once the record of a moved file could not be written, the organize pass
\* moves no further file.
C20_StopAfterLogWriteFailure == [][C20_Step]_vars

\* C21: when the directory argument names nothing or names a regular file,
\* organize, organize-with-rename and undo report the error and return at
\* once: the invocation is over after its first step, no file has moved, no
\* folder was created and the log document is as it was
NoDirReports == {"organize_nodir", "undo_nodir"}
EntryPoints == {"organize_files", "organize_files_with_rename", "undo_organization"}

C21_Step ==
  (pc = "idle" /\ passes' = passes + 1 /\ unit_in.fn \in EntryPoints
     /\ unit_in.directory_path # RootDir)
    => /\ pc' = "idle"
       /\ fs' = fs
       /\ dirs' = dirs
       /\ LastHist' \in NoDirReports

C21_InvalidDirectoryStops == [][C21_Step]_vars

\* organize-with-rename was pointed at a regular file of a tree that holds a
\* moved file and its log
C21_Witness ==
  /\ unit_in.fn = "organize_files_with_rename"
  /\ unit_in.directory_path \in DOMAIN fs
  /\ directory_path = unit_in.directory_path
  /\ LastHist = "organize_nodir"
  /\ LogRecs(fs) # <<>>

\* C22: undo on a directory whose log is absent, empty or malformed does
\* nothing: it returns before the confirmation prompt, no file has moved and
\* the log document is as it was
UsableLog(f) ==
  /\ LogPath \in DOMAIN f
  /\ ListOfRecords(f[LogPath])
  /\ f[LogPath].recs # <<>>

NoLogReports == {"undo_nolog", "undo_malformed", "undo_empty"}

C22_Step ==
  (/\ pc = "idle"
   /\ unit_in.fn = "undo_organization"
   /\ unit_in.directory_path = RootDir
   /\ passes' = passes + 1
   /\ ~UsableLog(fs))
    => /\ pc' = "idle"
       /\ LastHist' \in NoLogReports
       /\ fs' = fs
       /\ dirs' = dirs

C23_LoadSortingRules ==
  (unit_in.fn = "load_sorting_rules" /\ pc = "returned")
    => /\ unit_out[1].raised = "none"
       /\ unit_out[1].rules = IF unit_in.config.kind = "json" THEN unit_in.config.value
                              ELSE get_default_sorting_rules

\* the file held text that is not JSON and the call returned the nine default
\* categories
C23_Witness ==
  /\ unit_in.fn = "load_sorting_rules"
  /\ pc = "returned"
  /\ unit_in.config = ConfigText
  /\ Len(unit_out[1].rules) = 9

\* C24: in a confirmed undo pass every record of the log reaches exactly one
\* terminal outcome and keeps it: restored (its file went from the new path to
\* the original path), skipped because the file is missing at the new path,
\* skipped because the original path is occupied, or skipped after a declined
\* retry; the two counters count the records settled so far, so at the end of
\* the pass restored_count + skipped_count is the number of records, whether
\* or not a file was missing.
Settled(o) == {i \in 1..Len(o) : o[i] # "Pending"}

TerminalOutcomes == {"Restored", "SkippedMissing", "SkippedConflict", "SkippedAfterRetryDecline"}

C24_Step ==
  pc \in UndoPcs =>
    /\ Len(outcome') = Len(moves)
    /\ \A i \in Settled(outcome) : outcome'[i] = outcome[i]
    /\ \A i \in Settled(outcome') \ Settled(outcome) :
         /\ i = CurrentRecord
         /\ outcome'[i] \in TerminalOutcomes
         /\ outcome'[i] = "Restored"
              <=> /\ moves[i].new \in DOMAIN fs
                  /\ fs' = shutil_move(fs, moves[i].new, moves[i].original)
                  /\ fs' # fs
         /\ outcome'[i] = "SkippedMissing" <=> moves[i].new \notin DOMAIN fs
         /\ outcome'[i] = "SkippedConflict"
              <=> (moves[i].new \in DOMAIN fs /\ moves[i].original \in DOMAIN fs /\ pc = "undo_record")
         /\ outcome'[i] = "SkippedAfterRetryDecline" <=> pc = "undo_prompt"
    /\ Cardinality(Settled(outcome')) <= Cardinality(Settled(outcome)) + 1
    /\ restored_count' = Cardinality({i \in 1..Len(moves) : outcome'[i] = "Restored"})
    /\ restored_count' + u_skipped_count' = Cardinality(Settled(outcome'))
    /\ pc' = "idle" => restored_count' + u_skipped_count' = Len(moves)

C24_EveryRecordSettledOnce == [][C24_Step]_vars

\* an undo pass over two records is over: the record handled first had no
\* file at its new path, and the record after it was restored
C24_Witness ==
  /\ pc = "idle"
  /\ LastHist = "undo"
  /\ outcome = <<"Restored", "SkippedMissing">>
  /\ restored_count = 1
  /\ u_skipped_count = 1

\* C25: at the end of an organize pass, plain or with rename, dry-run or not,
\* every file of the listing was counted in exactly one of moved_count and
\* skipped_count: the two add up to the length of the listing.
C25_EachFileCountedOnce ==
  (pc = "idle" /\ LastHist \in {"organize", "organize_dry"})
    => moved_count + skipped_count = Len(files_to_organize)

\* C26: at the end of an organize pass without rename that is no dry run, the
\* files counted as moved are the listed files that left their source path,
\* and each of them is, with its content, at <category>/<original name>,
\* where the category is that of the lowercased extension of the name
SourceLeft == {i \in 1..Len(files_to_organize) : <<ROOT, files_to_organize[i]>> \notin DOMAIN fs}

CategoryPath(name) ==
  <<find_target_folder(lower(suffix(name)), sorting_rules), name>>

C26_MovedFilesAtCategory ==
  (pc = "idle" /\ LastHist = "organize" /\ mode = "plain")
    => /\ Cardinality(SourceLeft) = moved_count
       /\ \A i \in SourceLeft :
            /\ CategoryPath(files_to_organize[i]) \in DOMAIN fs
            /\ fs[CategoryPath(files_to_organize[i])] = fs0[<<ROOT, files_to_organize[i]>>]

\* a plain pass moved a.jpg to Images/ and B.pdf to Documents/
C26_Witness ==
  /\ pc = "idle"
  /\ LastHist = "organize"
  /\ mode = "plain"
  /\ moved_count = 2
  /\ <<"Images", NameA>> \in DOMAIN fs
  /\ <<"Documents", NameB>> \in DOMAIN fs
  /\ <<ROOT, NameB>> \in DOMAIN fs0

\* C27: for an extension that several categories of the rules table list,
\* find_target_folder returns the one of them that comes first in the order
\* of the table.
C27_FirstListedCategoryWins ==
  (pc = "returned" /\ unit_in.fn = "find_target_folder")
    => LET r == unit_in.sorting_rules
           L == ListedIn(r, unit_in.file_extension)
       IN Cardinality(L) >= 2
            => \E i \in L : /\ unit_out[1] = r[i].folder
                            /\ \A j \in L : i <= j

\* .pdf is listed by both categories of a table and the call returned the
\* first, Documents
C27_Witness ==
  /\ pc = "returned"
  /\ unit_in.fn = "find_target_folder"
  /\ unit_in.file_extension = ExtPdf
  /\ ListedIn(unit_in.sorting_rules, ExtPdf) = {1, 2}
  /\ unit_in.sorting_rules[1].folder = "Documents"
  /\ unit_out = <<"Documents">>

\* the name with its suffix in lower case
LowerTwin(name) == stem(name) \o lower(suffix(name))

\* C28: the category of a file does not depend on the letter case of its
\* extension: the extension that is looked up is in lower case, and the file
\* gets the category of the same name with a lowercase extension; a name
\* without a suffix and a dot-file have the empty extension and are "Other".
C28_CaseInsensitive ==
  (pc = "returned" /\ unit_in.fn = "get_file_extension")
    => /\ unit_out[1] = lower(unit_out[1])
       /\ unit_out[2] = find_target_folder(get_file_extension(LowerTwin(unit_in.file_name)),
                                           unit_in.sorting_rules)
       /\ unit_in.file_name \in {NameHidden, NameNoExtension}
            => unit_out = << <<>>, OTHER_FOLDER >>

\* Photo.JPG under rules that list .jpg for Images
C28_Witness ==
  /\ pc = "returned"
  /\ unit_in.fn = "get_file_extension"
  /\ unit_in.file_name = NamePhotoUpper
  /\ unit_out = <<ExtJpg, "Images">>

C30_Step ==
  (unit_in.fn = "rename_file" /\ Len(unit_out') = Len(unit_out) + 1)
    => LET file_name == unit_in.file_names[Len(unit_out) + 1]
           new_name == Substitute(unit_in.pattern, stem(file_name), passes')
           ext == suffix(file_name)
           Candidate(k) == IF k = 0 THEN new_name \o ext
                           ELSE new_name \o <<"_">> \o IntStr(k) \o ext
           returned == unit_out'[Len(unit_out')]
       IN /\ \E k \in 0..(2 * MaxCalls) :
               /\ returned = Candidate(k)
               /\ Candidate(k) \notin existing_names
               /\ \A j \in 0..(k - 1) : Candidate(j) \in existing_names
          /\ existing_names' = existing_names \cup {returned}
          /\ Cardinality(existing_names') = Cardinality(existing_names) + 1

\* C30: rename_file returns the substituted name with the extension of the
\* file when existing_names does not hold it, and otherwise the substituted
\* name, _k and the extension for the smallest k >= 1 whose name the set does
\* not hold; the call adds the returned name to the set and nothing else
\* changes in it.
C30_SmallestFreeCounter == [][C30_Step]_vars

\* two files named photo.jpg renamed with {lower} on a set that held
\* photo.jpg: the second call went past _1
C30_Witness ==
  /\ unit_in.fn = "rename_file"
  /\ unit_in.pattern = PatternLower
  /\ unit_out = << <<"p", "h", "o", "t", "o", "_", "1", ".", "j", "p", "g">>,
                   <<"p", "h", "o", "t", "o", "_", "2", ".", "j", "p", "g">> >>
  /\ NamePhotoLower \in existing_names

\* the names of the files in a category folder
NamesIn(folder) == {p[2] : p \in {q \in DOMAIN fs : q[1] = folder}}

\* C29: when a file of a pass with a rename pattern is about to be handled,
\* the set of names the rename engine consults holds the names of the files
\* of the destination folder, so the destination computed for the file is
\* free and the file is not skipped for a destination conflict.
C29_RenameSeesDestinationFolder ==
  (mode = "rename" /\ pc = "org_file" /\ idx <= Len(files_to_organize))
    => /\ NamesIn(CurrentFolder) \subseteq existing_names
       /\ ComputedDestination \notin DOMAIN fs

IsPrefix(s, t) == Len(s) <= Len(t) /\ \A i \in 1..Len(s) : t[i] = s[i]

C31_Step ==
  (pc \in OrganizePcs /\ LogPath \in DOMAIN fs)
    => /\ LogPath \in DOMAIN fs'
       /\ IsPrefix(LogRecs(fs), LogRecs(fs'))

\* C31: no step of an organize pass takes py_sort_moves.json away from the
\* directory, and the records the log held stay, in order, the first records
\* of the log.
C31_LogStaysAndGrows == [][C31_Step]_vars

\* the step is the start of an undo invocation
UndoStarts ==
  /\ pc = "idle"
  /\ passes' = passes + 1
  /\ pc' \notin OrganizePcs
  /\ LastHist' \notin {"organize_nofiles", "organize_nodir"}

C32_Step ==
  (LastHist = "undo" /\ UndoStarts)
    => /\ pc' = "idle"
       /\ LastHist' \in {"undo_empty", "undo_nolog"}
       /\ fs' = fs
       /\ restored_count' = 0
       /\ u_skipped_count' = 0

\* C32: an undo started right after a completed undo pass finds nothing to
\* undo: it returns at once, without a prompt, with no record restored or
\* skipped and the file system as the first undo left it.
C32_UndoIsOneShot == [][C32_Step]_vars

C33_Step ==
  (unit_in.fn = "main" /\ unit_in.dry_run) => (fs' = fs /\ dirs' = dirs)

\* C33: an invocation whose arguments hold --dry-run changes no file and no
\* folder, whatever other options are given with it, --undo included.
C33_DryRunFlagNeverMutates == [][C33_Step]_vars

RunningPcs == OrganizePcs \cup UndoPcs \cup {"undo_confirm"}

C34_Step ==
  /\ pc \in OrganizePcs
       => /\ files_to_organize' = files_to_organize
          /\ idx' = idx \/ idx' = idx + 1 \/ pc' = "idle"
          /\ pc' = "idle" => idx > Len(files_to_organize)
  /\ pc \in UndoPcs
       => /\ moves' = moves
          /\ upos' = upos \/ upos' = upos + 1 \/ pc' = "idle"
          /\ pc' = "idle" => upos > Len(moves)

C34_Terminates == (pc \in RunningPcs) ~> (pc = "idle")

\* C34: when the operator answers every prompt and declines the retry of an
\* operation that keeps failing, a pass ends; the listing (the loaded log) is
\* not read again during the pass, the loop goes through it one position at
\* a time, and the pass ends only after the last position.
C34_OncePerFileAndTerminates == C34_Terminates /\ [][C34_Step]_vars

\* C35: a call of move_file_with_retry makes at most max_retries attempts; it
\* returns at the first attempt that succeeds, with the file moved; after the
\* j-th attempt in a row that failed with a permission error it sleeps
\* delay * 2^(j-1) seconds and tries again, unless that was attempt
\* max_retries, whose permission error leaves the function; any other OS
\* error leaves the function at the attempt it occurs in.
C35_RetryPolicy ==
  (unit_in.fn = "move_file_with_retry")
    => LET n == Len(unit_out)
       IN /\ n <= unit_in.max_retries
          /\ \A j \in 1..n :
               \/ /\ unit_out[j] = Slept(unit_in.delay * 2 ^ (j - 1))
                  /\ unit_in.faults[j] = "PermissionError"
                  /\ j < unit_in.max_retries
                  /\ j < n \/ pc = "call"
               \/ /\ j = n
                  /\ unit_out[j] = Returned
                  /\ unit_in.faults[j] = "ok"
                  /\ pc = "returned"
                  /\ <<"Images", NameA>> \in DOMAIN fs
               \/ /\ j = n
                  /\ unit_out[j] = Raised(unit_in.faults[j])
                  /\ pc = "raised"
                  /\ <<ROOT, NameA>> \in DOMAIN fs
                  /\ \/ unit_in.faults[j] = "OSError"
                     \/ unit_in.faults[j] = "PermissionError" /\ j = unit_in.max_retries
          /\ pc = "call" => n < unit_in.max_retries

\* three attempts were refused: sleeps of 1 and 2 seconds, then the
\* permission error of the third attempt
C35_Witness ==
  /\ unit_in.fn = "move_file_with_retry"
  /\ unit_in.max_retries = max_retries
  /\ unit_out = <<Slept(1), Slept(2), Raised("PermissionError")>>

\* the number of entries of a trace that are the event e
CountOf(trace, e) == Cardinality({i \in 1..Len(trace) : trace[i] = e})

\* C36: no error of the creation leaves create_folder_if_not_exists; every
\* failed mkdir is followed by exactly one call of prompt_retry, every yes by
\* one more mkdir, and the first no ends the call with the folder not created;
\* when the folder exists at the call, the call returns with no mkdir and no
\* prompt.
C36_CreateFolderNeverRaises ==
  (unit_in.fn = "create_folder_if_not_exists")
    => LET tries == CountOf(unit_out, "mkdir")
           asked == CountOf(unit_out, "prompt")
           made == unit_in.folder_path \in dirs
       IN /\ pc # "raised"
          /\ \A i \in 1..Len(unit_out) :
               unit_out[i] = IF i % 2 = 1 THEN "mkdir" ELSE "prompt"
          /\ \A i \in 1..asked : unit_in.faults[i] # "ok"
          /\ \A i \in 1..(asked - 1) : unit_in.answers[i]
          /\ pc = "prompt" => tries = asked + 1 /\ unit_in.faults[tries] # "ok" /\ ~made
          /\ pc = "call" => tries = asked /\ (asked > 0 => unit_in.answers[asked] /\ ~made)
          /\ pc = "returned" =>
               \/ tries = 0 /\ asked = 0 /\ made
               \/ tries = asked + 1 /\ unit_in.faults[tries] = "ok" /\ made
                    /\ (asked > 0 => unit_in.answers[asked])
               \/ tries = asked /\ asked > 0 /\ ~unit_in.answers[asked] /\ ~made

\* two creations failed, the operator said yes and then no: the call has
\* returned without the folder
C36_Witness ==
  /\ unit_in.fn = "create_folder_if_not_exists"
  /\ pc = "returned"
  /\ unit_out = <<"mkdir", "prompt", "mkdir", "prompt">>
  /\ unit_in.faults[2] = "Exception"
  /\ "Images" \notin dirs

\* the place of the statement op of process p in the trace, 0 when it has not
\* been executed
At(trace, p, op) ==
  IF \E i \in 1..Len(trace) : trace[i].proc = p /\ trace[i].op = op
  THEN CHOOSE i \in 1..Len(trace) : trace[i].proc = p /\ trace[i].op = op
  ELSE 0

BothFinished == \A p \in Procs : Done(unit_out, p) = Len(ProcOps)

\* C37: log_move reads the whole document, appends and rewrites the whole
\* document with no lock, and two invocations started without waiting for one
\* another interleave these statements freely. When both have moved their file
\* and finished log_move, the log is what the last writer read plus its own
\* record: the other invocation's record is in the log exactly when the other
\* had finished its rewrite before the last writer read, and the records that
\* were in the log before are kept exactly when the last writer did not read
\* while the other had the file open.
C37_UnlockedAppendLosesRecords ==
  (unit_in.fn = "run_organizer" /\ BothFinished)
    => \E last \in Procs :
         LET other == CHOOSE q \in Procs : q # last
             final == fs[LogPath].recs
             before == unit_in.stored.recs
         IN /\ At(unit_out, other, "dump") < At(unit_out, last, "dump")
            /\ fs[LogPath].kind = "log"
            /\ final[Len(final)] = ProcRecord(last)
            /\ \A p \in Procs : ProcTarget(p) \in DOMAIN fs /\ ProcSource(p) \notin DOMAIN fs
            /\ (ProcRecord(other) \in Range(final))
                 <=> (At(unit_out, other, "dump") < At(unit_out, last, "read"))
            /\ (\A i \in 1..Len(before) : before[i] \in Range(final))
                 <=> ~(/\ At(unit_out, other, "open") < At(unit_out, last, "read")
                       /\ At(unit_out, last, "read") < At(unit_out, other, "dump")
                       /\ before # <<>>)

\* both invocations moved their file and finished log_move, and the record
\* of the first one is not in the log
C37_Witness ==
  /\ unit_in.fn = "run_organizer"
  /\ BothFinished
  /\ \A p \in Procs : ProcTarget(p) \in DOMAIN fs
  /\ fs[LogPath].kind = "log"
  /\ ProcRecord(1) \notin Range(fs[LogPath].recs)
  /\ ProcRecord(2) \in Range(fs[LogPath].recs)

\* a configuration as the spec describes it: category names unique and not
\* empty, every extension lowercase, starting with a dot, once per category
WellFormedConfig(cfg) ==
  /\ \A i \in 1..Len(cfg) : cfg[i].category # <<>>
  /\ \A i, j \in 1..Len(cfg) : cfg[i].category = cfg[j].category => i = j
  /\ \A i \in 1..Len(cfg) :
       LET exts == cfg[i].extensions
       IN /\ \A k \in 1..Len(exts) :
               /\ exts[k] # <<>>
               /\ exts[k][1] = "."
               /\ exts[k] = lower(exts[k])
          /\ \A k, m \in 1..Len(exts) : exts[k] = exts[m] => k = m

\* the operations the editor refuses, on what was typed once blanks at the
\* ends are dropped and, for an extension, capitals are lowered
Refused(cfg, op) ==
  LET name == strip(op.category)
      ext == lower(strip(op.ext))
      known == \E i \in 1..Len(cfg) : cfg[i].category = name
      has == \E i \in 1..Len(cfg) : cfg[i].category = name /\ ext \in Range(cfg[i].extensions)
  IN CASE op.choice = "2" -> name = <<>> \/ known
       [] op.choice = "3" -> ~known
       [] op.choice = "4" -> ~known \/ ext = <<>> \/ ext[1] # "." \/ has
       [] op.choice = "5" -> ~known \/ ~has
       [] OTHER -> TRUE

\* C38: every operation of the config editor takes a well-formed
\* configuration to a well-formed one, and an operation that is refused (empty
\* or duplicate category, unknown category, extension without leading dot,
\* duplicate or unknown extension) leaves the configuration as it was, while
\* an accepted one changes it.
C38_Step ==
  (unit_in.fn = "menu" /\ pc = "menu" /\ WellFormedConfig(editor_config))
    => /\ WellFormedConfig(editor_config')
       /\ Refused(editor_config, unit_out'[1]) <=> (editor_config' = editor_config)

C38_ConfigStaysWellFormed == [][C38_Step]_vars

\* the category A holds .p and .j, and adding " .P " or the like to it was
\* just refused as a duplicate
C38_Witness ==
  /\ unit_in.fn = "menu"
  /\ Len(editor_config) = 1
  /\ editor_config[1] = [category |-> <<"A">>, extensions |-> <<<<".", "p">>, <<".", "j">>>>]
  /\ unit_out = <<[choice |-> "4", category |-> <<" ", "A", " ">>, ext |-> <<".", "P">>]>>

====
